---- MODULE Spec2Model ----
(***************************************************************************)
(* LinkedIn profile matching and the WorkflowMax batch updater.            *)
(*                                                                         *)
(* LinkedInService.find_linkedin_profile, calculate_similarity and         *)
(* _analyze_experience (services/linkedin_service.py) and                  *)
(* WorkflowMaxLinkedInService.update_single_contact and                    *)
(* update_missing_linkedin_profiles (services/workflowmax_linkedin_        *)
(* service.py) as a state machine.  Every external call (LinkedIn search,  *)
(* get_profile, get_profile_contact_info, contact store search,            *)
(* get_by_uuid, update_custom_field) is one step whose outcome (a value    *)
(* or an exception) is chosen by the environment.                          *)
(*                                                                         *)
(* Similarities are difflib ratios in [0,1]; they are kept as integer      *)
(* percentages (0..100) and the weighted score as an integer in            *)
(* thousandths (0..1000), so 0.6*n + 0.4*e is 6*n + 4*e.  A candidate      *)
(* profile carries the ratio of its name to the canonical name and, per    *)
(* experience entry, the ratios of its company and title to the canonical  *)
(* ones: the ratio itself is difflib's, its results are inputs here.       *)
(***************************************************************************)
EXTENDS Integers, Sequences, FiniteSets, TLC

\* ------------------------------------------------------------------------
\* Bounds of the model
\* ------------------------------------------------------------------------
MaxHits == 6
MaxNoUrn == 1
MaxHitsBatch == 2
NumContacts == 2
MaxBatchSize == 2
MaxTextLen == 3    \* longest raw string handed to the text functions
MaxRoles == 2      \* most experience entries of a profile handed to the analysis
NumThreads == 2    \* threads that use the APIClientManager
MaxCalls == 2      \* most APIClientManager calls one thread makes
MaxAttempts == 3   \* largest max_attempts given to retry
MaxTime == 3       \* the clock stops here
MaxAuthCalls == 2  \* most calls of OAuthManager.authenticate
MaxManagers == 2   \* most OAuthManager objects created (process runs)
MaxTicks == 4      \* most advances of the clock the definitions cache sees
MaxCacheCalls == 2 \* most calls of CustomFieldRepository.get_definitions
MaxOldHits == 2    \* most search results given to the earlier LinkedInMatcher
NumWorkers == 2    \* threads of the profile fetcher's pool
MaxRequests == 2   \* most requests one worker issues

\* ------------------------------------------------------------------------
\* Program constants
\* ------------------------------------------------------------------------
SIMILARITY_THRESHOLD == 700
NAME_THRESHOLD == 80
EXPERIENCE_THRESHOLD == 30
NAME_WEIGHT == 6
EXPERIENCE_WEIGHT == 4
HIGH_CONFIDENCE == 80
SCAN_LIMIT == 5
LINKEDIN_BASE_URL == "https://www.linkedin.com/in/"
LINKEDIN_FIELD == "LINKEDIN PROFILE"

\* Python's None, a search hit without urn_id, an entry without text
NoneVal == "None"
NoUrn == 0
NoText == -1

\* Python truthiness of an Optional[str]
Truthy(v) == v # NoneVal /\ v # ""

Min(a, b) == IF a < b THEN a ELSE b
Max(a, b) == IF a > b THEN a ELSE b

\* ------------------------------------------------------------------------
\* Text: names are sequences of characters
\* ------------------------------------------------------------------------
NameChars == {"A", "-", " "}
IsSpace(c) == c = " "
Lower(c) == IF c = "A" THEN "a" ELSE c
IsAlnumLower(c) == c \in {"a", "b", "0"}

\* str.split() with sep=None: the maximal runs of non-whitespace
RECURSIVE SplitWords(_)
SplitWords(s) ==
    IF s = <<>> THEN <<>>
    ELSE IF IsSpace(Head(s)) THEN SplitWords(Tail(s))
    ELSE LET rest == SplitWords(Tail(s))
         IN IF Len(s) > 1 /\ ~IsSpace(s[2])
            THEN <<(<<Head(s)>> \o Head(rest))>> \o Tail(rest)
            ELSE <<(<<Head(s)>>)>> \o rest

RECURSIVE LStrip(_)
LStrip(s) == IF s # <<>> /\ IsSpace(Head(s)) THEN LStrip(Tail(s)) ELSE s

RECURSIVE TakeWord(_)
TakeWord(s) == IF s = <<>> \/ IsSpace(Head(s)) THEN <<>> ELSE <<Head(s)>> \o TakeWord(Tail(s))

\* Variant: the name is split after its special characters became spaces
SplitMax1_cleaned(s) ==
    LET c == [k \in 1..Len(s) |-> IF s[k] = "-" THEN " " ELSE s[k]]
        t == LStrip(c)
        w == TakeWord(t)
        r == LStrip(SubSeq(t, Len(w) + 1, Len(t)))
    IN IF t = <<>> THEN <<>>
       ELSE IF r = <<>> THEN <<w>>
       ELSE <<w, r>>

\* str.split(maxsplit=1): first word, then the remainder after the whitespace
\* that follows it (the remainder keeps its own trailing whitespace)
SplitMax1(s) ==
    LET t == LStrip(s)
        w == TakeWord(t)
        r == LStrip(SubSeq(t, Len(w) + 1, Len(t)))
    IN IF t = <<>> THEN <<>>
       ELSE IF r = <<>> THEN <<w>>
       ELSE <<w, r>>

RECURSIVE JoinWords(_)
JoinWords(ws) ==
    IF ws = <<>> THEN <<>>
    ELSE IF Len(ws) = 1 THEN Head(ws)
    ELSE Head(ws) \o <<" ">> \o JoinWords(Tail(ws))

\* Variant: the spaces are normalised before the special characters are
\* replaced
_clean_text_joinfirst(text) ==
    IF text = <<>> THEN <<>>
    ELSE LET lowered == [k \in 1..Len(text) |-> Lower(text[k])]
             joined == JoinWords(SplitWords(lowered))
         IN [k \in 1..Len(joined) |->
               IF IsAlnumLower(joined[k]) \/ IsSpace(joined[k]) THEN joined[k] ELSE " "]

\* LinkedInService._clean_text
_clean_text(text) ==
    IF text = <<>> THEN <<>>
    ELSE LET lowered == [k \in 1..Len(text) |-> Lower(text[k])]
             replaced == [k \in 1..Len(text) |->
                            IF IsAlnumLower(lowered[k]) \/ IsSpace(lowered[k])
                            THEN lowered[k] ELSE " "]
         IN JoinWords(SplitWords(replaced))

\* Raw strings over letters of both cases, a special character and the space
TextChars == {"A", "b", "-", " "}
Texts == UNION {[1..n -> TextChars] : n \in 0..MaxTextLen}

\* difflib.SequenceMatcher (isjunk = None; the automatic junk heuristic needs
\* 200 characters): the blocks a[i..i+k-1] = b[j..j+k-1] inside the two ranges
MatchingBlocks(a, b, alo, ahi, blo, bhi) ==
    {x \in (alo..ahi) \X (blo..bhi) \X (1..Min(ahi - alo + 1, bhi - blo + 1)) :
        /\ x[1] + x[3] - 1 <= ahi
        /\ x[2] + x[3] - 1 <= bhi
        /\ \A d \in 0..(x[3] - 1) : a[x[1] + d] = b[x[2] + d]}

\* find_longest_match: the longest block; of those the one starting earliest
\* in a; of those the one starting earliest in b
find_longest_match(a, b, alo, ahi, blo, bhi) ==
    LET blocks == MatchingBlocks(a, b, alo, ahi, blo, bhi)
    IN CHOOSE x \in blocks : \A y \in blocks :
          \/ x[3] > y[3]
          \/ x[3] = y[3] /\ x[1] < y[1]
          \/ x[3] = y[3] /\ x[1] = y[1] /\ x[2] <= y[2]

\* get_matching_blocks: the longest match, then the same to its left and to
\* its right; the sum of the block sizes
RECURSIVE matches(_, _, _, _, _, _)
matches(a, b, alo, ahi, blo, bhi) ==
    IF MatchingBlocks(a, b, alo, ahi, blo, bhi) = {} THEN 0
    ELSE LET x == find_longest_match(a, b, alo, ahi, blo, bhi)
         IN x[3] + matches(a, b, alo, x[1] - 1, blo, x[2] - 1)
                 + matches(a, b, x[1] + x[3], ahi, x[2] + x[3], bhi)

\* Variant: M / T instead of 2 * M / T
ratio_nofactor(a, b) ==
    IF Len(a) + Len(b) = 0 THEN 100
    ELSE (100 * matches(a, b, 1, Len(a), 1, Len(b))) \div (Len(a) + Len(b))

\* SequenceMatcher(None, a, b).ratio() as a whole percentage: 2 * M / T, and
\* 1.0 when both strings are empty
ratio(a, b) ==
    IF Len(a) + Len(b) = 0 THEN 100
    ELSE (200 * matches(a, b, 1, Len(a), 1, Len(b))) \div (Len(a) + Len(b))

\* ------------------------------------------------------------------------
\* Candidate profiles returned by get_profile
\* ------------------------------------------------------------------------
Entry(c, t) == [company |-> c, title |-> t]
NameSims == {79, 80, 100}
ExperienceLists ==
    { <<>>,
      <<Entry(29, NoText)>>,
      <<Entry(NoText, 30)>>,
      <<Entry(30, 29), Entry(100, 100)>> }
PublicIds == {NoneVal, "pid"}
Profiles == [nameSim : NameSims, experience : ExperienceLists, public_id : PublicIds]
NullProfile == [nameSim |-> 0, experience |-> <<>>, public_id |-> NoneVal]

ContactInfoUrls == {NoneVal, "", "https://www.linkedin.com/in/ci"}

\* Variant: the scan ends at the first entry that gave a best company or a
\* best title
RECURSIVE ScanExperience_earlyexit(_, _, _)
ScanExperience_earlyexit(experience, k, acc) ==
    IF k > Len(experience) \/ acc.best_company # 0 \/ acc.best_title # 0 THEN acc
    ELSE LET role == experience[k]
             a1 == IF role.company # NoText /\ role.company > acc.company_similarity
                   THEN [acc EXCEPT !.company_similarity = role.company,
                                    !.best_company = k,
                                    !.has_company_match = role.company >= HIGH_CONFIDENCE]
                   ELSE acc
             a2 == IF role.title # NoText /\ role.title > a1.title_similarity
                   THEN [a1 EXCEPT !.title_similarity = role.title,
                                   !.best_title = k,
                                   !.has_title_match = role.title >= HIGH_CONFIDENCE]
                   ELSE a1
         IN ScanExperience_earlyexit(experience, k + 1, a2)

\* LinkedInService._analyze_experience: one pass over the entries, keeping
\* the best company and the best title (0 stands for None, k for the
\* original string of entry k)
RECURSIVE ScanExperience(_, _, _)
ScanExperience(experience, k, acc) ==
    IF k > Len(experience) THEN acc
    ELSE LET role == experience[k]
             a1 == IF role.company # NoText
                   THEN [acc EXCEPT
                           !.company_similarity =
                               IF role.company > acc.company_similarity
                               THEN role.company ELSE @,
                           !.best_company =
                               IF role.company > acc.company_similarity THEN k ELSE @,
                           !.has_company_match =
                               IF role.company >= HIGH_CONFIDENCE THEN TRUE ELSE @]
                   ELSE acc
             a2 == IF role.title # NoText
                   THEN [a1 EXCEPT
                           !.title_similarity =
                               IF role.title > a1.title_similarity
                               THEN role.title ELSE @,
                           !.best_title =
                               IF role.title > a1.title_similarity THEN k ELSE @,
                           !.has_title_match =
                               IF role.title >= HIGH_CONFIDENCE THEN TRUE ELSE @]
                   ELSE a1
         IN ScanExperience(experience, k + 1, a2)

\* Variant: the similarities of an empty experience are those of comparing
\* two empty strings
EmptyAnalysis_emptyratio ==
    [has_company_match |-> FALSE, has_title_match |-> FALSE,
     best_company |-> 0, best_title |-> 0,
     company_similarity |-> 100, title_similarity |-> 100]

\* The dict returned for an empty experience, and the values the scan starts
\* from
EmptyAnalysis ==
    [has_company_match |-> FALSE, has_title_match |-> FALSE,
     best_company |-> 0, best_title |-> 0,
     company_similarity |-> 0, title_similarity |-> 0]

_analyze_experience(linkedin_profile) ==
    IF linkedin_profile.experience = <<>> THEN EmptyAnalysis
    ELSE ScanExperience(linkedin_profile.experience, 1, EmptyAnalysis)

experience_similarity(linkedin_profile) ==
    LET a == _analyze_experience(linkedin_profile)
    IN Max(a.company_similarity, a.title_similarity)

\* Variant: the weighted score without the two minimum thresholds
calculate_similarity_nogate(linkedin_profile) ==
    linkedin_profile.nameSim * NAME_WEIGHT
        + experience_similarity(linkedin_profile) * EXPERIENCE_WEIGHT

\* Variant: the two weights are exchanged
calculate_similarity_swapped(linkedin_profile) ==
    IF linkedin_profile.nameSim < NAME_THRESHOLD
         \/ experience_similarity(linkedin_profile) < EXPERIENCE_THRESHOLD
    THEN 0
    ELSE linkedin_profile.nameSim * EXPERIENCE_WEIGHT
           + experience_similarity(linkedin_profile) * NAME_WEIGHT

\* LinkedInService.calculate_similarity
calculate_similarity(linkedin_profile) ==
    IF linkedin_profile.nameSim < NAME_THRESHOLD
         \/ experience_similarity(linkedin_profile) < EXPERIENCE_THRESHOLD
    THEN 0
    ELSE linkedin_profile.nameSim * NAME_WEIGHT
           + experience_similarity(linkedin_profile) * EXPERIENCE_WEIGHT

\* ------------------------------------------------------------------------
\* State
\* ------------------------------------------------------------------------
VARIABLES
    op,               \* entry point of the run: "none", "find", "single", "batch"
    store,            \* the contact store: uuid -> contact record
    dry_run,          \* the dry_run argument of the run
    batch_size,       \* the batch_size argument of the run
    b_pc,             \* position in update_missing_linkedin_profiles
    page,             \* its local `page`
    contacts,         \* its local `contacts` (the current page)
    idx,              \* position of the for loop in `contacts`
    processed,        \* its local `processed`
    updated,          \* its local `updated`
    u_pc,             \* position in update_single_contact
    u_uuid,           \* its argument contact_uuid
    contact,          \* its local `contact`
    u_match,          \* its local `match`
    u_url,            \* its local `profile_url`
    u_result,         \* how it ended: "pending", "none", "match", "error"
    m_pc,             \* position in find_linkedin_profile
    profile,          \* its argument `profile`
    search_args,      \* the (first_name, last_name) passed to search_people
    search_results,   \* its local `search_results`
    i,                \* position of the for loop in search_results[:5]
    linkedin_profile, \* its local `linkedin_profile`
    score,            \* its local `score`
    best_match,       \* its local `best_match`
    best_score,       \* its local `best_score`
    m_result,         \* how it ended: kind "pending", "none", "match", "error"
    search_calls,     \* history: number of search_people calls of this match
    profile_log,      \* history: urns passed to get_profile, in call order
    contact_log,      \* history: urns passed to get_profile_contact_info
    top_score,        \* history: highest score computed in this match
    top_first,        \* history: first position whose score is top_score
    best_idx,         \* history: position of the candidate held in best_match
    first_pass,       \* history: first position whose score met the threshold
    failed_call,      \* history: the external call that raised in this match
    matched,          \* history: uuids passed to find_linkedin_profile
    update_calls,     \* history: (uuid, url, ok) of every update_custom_field call
    store0,           \* history: the contact store at the start of the run
    contact_errors,   \* history: contacts whose update_single_contact raised
    search_failed,    \* history: contacts.search raised in this run
    page_log,         \* history: (page, page_size) of every contacts.search call of this run
    run,              \* history: number of the batch run (1 or 2) on this store
    written1,         \* history: uuids whose LinkedIn field the first run wrote
    t_pc,             \* position of the text functions applied to one pair of strings
    text_a,           \* a raw string (a contact's name, company or title)
    text_b,           \* a raw string (the candidate's name, company or title)
    clean_a,          \* _clean_text(text_a)
    clean_b,          \* _clean_text(text_b)
    clean2_a,         \* _clean_text(clean_a)
    sim_ab,           \* SequenceMatcher(None, clean_a, clean_b).ratio()
    sim_ba,           \* SequenceMatcher(None, clean_b, clean_a).ratio()
    a_pc,             \* position of one _analyze_experience call
    a_experience,     \* linkedin_profile['experience']: roles with raw companyName, title
    a_target_company, \* its argument target_company (<<>>: None or '')
    a_target_title,   \* its argument target_title (<<>>: None or '')
    a_result,         \* the dict it returned
    cm_lock,          \* APIClientManager._lock: 0 when free, else the thread holding it
    cm_api_client,    \* APIClientManager._api_client: 0 for None, else the client object
    cm_pc,            \* per thread: its position in the manager's methods
    cm_nested,        \* per thread: clear_client was entered from refresh_auth's handler
    cm_result,        \* per thread: how its last call ended
    cm_calls,         \* per thread: number of calls it has made
    cm_instance,      \* APIClientManager._instance: 0 for None, else the manager object
    cm_initialized,   \* _instance._initialized: "unset" (no such attribute), "false", "true"
    cm_instances,     \* history: number of manager objects created
    cm_auth_calls,    \* history: authenticate() calls made by get_client
    cm_auth_cached,   \* history: one of them was made while a client was cached
    cm_clients,       \* history: number of APIClient objects created
    cm_got,           \* per thread: the client its last get_client returned (0: none)
    \* retry (core/utils.py)
    r_pc,             \* "ready" | "try" | "sleep" | "done"
    max_attempts,     \* retry's max_attempts argument
    delay,            \* retry's delay argument
    backoff,          \* retry's backoff argument
    attempt,          \* the loop variable of wrapper
    current_delay,    \* wrapper's current_delay
    last_exception,   \* wrapper's last_exception
    r_result,         \* what the wrapped call gave its caller
    r_outcomes,       \* history: outcome of each invocation of func, in order
    r_sleeps,         \* history: the delays slept, in order
    \* OAuthManager (api/auth.py)
    o_pc,             \* "idle" | "load" | "refresh" | "flow" | "wait" | "verify" | "exchange" | "done"
    o_enabled,        \* auth_config.token_storage.enabled
    o_encrypt,        \* auth_config.token_storage.encryption_key is set
    o_key,            \* self._encryption_key (0: None)
    o_file,           \* the token storage file
    o_now,            \* time.time()
    o_force,          \* authenticate's force_refresh
    o_token_info,     \* authenticate's token_info after _load_token_info
    o_state,          \* the state generated for the current flow
    o_response,       \* server.oauth_response
    o_result,         \* what authenticate gave its caller
    o_managers,       \* OAuthManager objects created so far
    o_auth_calls,     \* authenticate calls so far
    o_tokens,         \* token sets the token endpoint has issued
    o_flows,          \* browser authorization flows started
    o_exchanges,      \* history: authorization-code exchange requests sent
    o_saves,          \* history: writes of the token storage file
    o_saved_by,       \* history: the manager that wrote the file (0: nobody)
    o_saves0,         \* o_saves when the current authenticate call began
    o_exchanges0,     \* o_exchanges when the current authenticate call began
    o_flows0,         \* o_flows when the current authenticate call began
    \* CustomFieldRepository (repositories/custom_field_repository.py)
    c_pc,             \* "idle" | "fetch" | "done"
    _definitions_cache,
    _cache_timestamp,
    c_now,            \* the wall clock, in seconds
    c_ticks,          \* advances of the clock so far
    c_calls,          \* get_definitions calls so far
    c_force,          \* get_definitions' force_refresh
    c_result,         \* what get_definitions gave its caller
    c_requests,       \* history: API requests for the definitions
    c_cache0,         \* _definitions_cache when the current call began
    c_timestamp0,     \* _cache_timestamp when the current call began
    c_now0,           \* the clock when the current call tested the cache
    c_requests0,      \* c_requests when the current call began
    \* the earlier LinkedInMatcher (old_codebase linkedin_matcher.py)
    lm_pc,            \* "start" | "scan" | "decide" | "done"
    lm_two_parts,     \* contact.Name splits into exactly two parts
    lm_search_results,\* what api.search_people returns
    lm_i,             \* position of the scan in search_results[:5]
    lm_best_match,    \* best_match (NoUrl: None)
    lm_best_score,    \* best_score, in thousandths
    lm_result,        \* what find_linkedin_profile returned (NoUrl: None)
    \* RateLimiter (old_codebase api_client.py)
    rl_pc,            \* per worker: "idle" | "wait" | "load_inc" | "store_inc" | "in" | "load_dec" | "store_dec"
    active_calls,     \* RateLimiter.active_calls
    rl_loaded,        \* per worker: the active_calls it read for its += or -=
    rl_requests,      \* per worker: requests issued so far
    rl_result         \* per worker: how its last request ended

matcherVars == <<m_pc, profile, search_args, search_results, i, linkedin_profile,
                 score, best_match, best_score, m_result, search_calls,
                 profile_log, contact_log, top_score, top_first, best_idx,
                 first_pass, failed_call>>
singleVars == <<u_pc, u_uuid, contact, u_match, u_url, u_result>>
batchVars == <<b_pc, page, contacts, idx, processed, updated, contact_errors,
               search_failed, page_log>>
runVars == <<op, dry_run, batch_size, store0, run, written1>>
storeVars == <<store, matched, update_calls>>
textVars == <<t_pc, text_a, text_b, clean_a, clean_b, clean2_a, sim_ab, sim_ba>>
analysisVars == <<a_pc, a_experience, a_target_company, a_target_title, a_result>>
singletonVars == <<cm_instance, cm_initialized, cm_instances>>
clientHist == <<cm_auth_calls, cm_auth_cached, cm_clients, cm_got>>
clientVars == <<cm_lock, cm_api_client, cm_pc, cm_nested, cm_result, cm_calls,
                singletonVars, clientHist>>
retryVars == <<r_pc, max_attempts, delay, backoff, attempt, current_delay, last_exception,
               r_result, r_outcomes, r_sleeps>>
oauthVars == <<o_pc, o_enabled, o_encrypt, o_key, o_file, o_now, o_force, o_token_info,
               o_state, o_response, o_result, o_managers, o_auth_calls, o_tokens, o_flows,
               o_exchanges, o_saves, o_saved_by, o_saves0, o_exchanges0, o_flows0>>
cacheVars == <<c_pc, _definitions_cache, _cache_timestamp, c_now, c_ticks, c_calls, c_force,
               c_result, c_requests, c_cache0, c_timestamp0, c_now0, c_requests0>>
oldVars == <<lm_pc, lm_two_parts, lm_search_results, lm_i, lm_best_match, lm_best_score,
             lm_result>>
limiterVars == <<rl_pc, active_calls, rl_loaded, rl_requests, rl_result>>
notRetry == <<oauthVars, cacheVars, oldVars, limiterVars>>
notOAuth == <<retryVars, cacheVars, oldVars, limiterVars>>
notCache == <<retryVars, oauthVars, oldVars, limiterVars>>
notOld == <<retryVars, oauthVars, cacheVars, limiterVars>>
notLimiter == <<retryVars, oauthVars, cacheVars, oldVars>>
laterVars == <<retryVars, oauthVars, cacheVars, oldVars, limiterVars>>
otherVars == <<textVars, analysisVars, clientVars, laterVars>>
vars == <<runVars, storeVars, batchVars, singleVars, matcherVars, otherVars>>

NoMatch ==
    [found |-> FALSE, url |-> NoneVal, score |-> 0, company |-> 0, title |-> 0,
     public_id |-> NoneVal]
Pending == [kind |-> "pending", match |-> NoMatch]
Result(kind, m) == [kind |-> kind, match |-> m]

\* ------------------------------------------------------------------------
\* The contact store
\* ------------------------------------------------------------------------
Uuids == 1..NumContacts
Field(n, v) == [name |-> n, value |-> v]
FieldLists ==
    { <<>>,
      <<Field("OTHER", "x"), Field(LINKEDIN_FIELD, NoneVal)>>,
      <<Field(LINKEDIN_FIELD, "")>>,
      <<Field("OTHER", "x"), Field(LINKEDIN_FIELD, "https://www.linkedin.com/in/old")>> }
ContactName(u) == IF u % 2 = 1 THEN <<"A", " ", "A">> ELSE <<"A", "-", "A">>
NullContact == [uuid |-> 0, name |-> <<>>, custom_fields |-> <<>>]
Stores ==
    { [u \in Uuids |-> [uuid |-> u, name |-> ContactName(u), custom_fields |-> f[u]]] :
        f \in [Uuids -> FieldLists] }

\* Variant: only the first custom field is looked at
get_custom_field_value_first(custom_fields, field_name) ==
    IF custom_fields = <<>> THEN NoneVal
    ELSE IF Head(custom_fields).name = field_name THEN Head(custom_fields).value
    ELSE NoneVal

\* Contact.get_custom_field_value
RECURSIVE get_custom_field_value(_, _)
get_custom_field_value(custom_fields, field_name) ==
    IF custom_fields = <<>> THEN NoneVal
    ELSE IF Head(custom_fields).name = field_name THEN Head(custom_fields).value
    ELSE get_custom_field_value(Tail(custom_fields), field_name)

\* ------------------------------------------------------------------------
\* Init
\* ------------------------------------------------------------------------
MatcherInit ==
    /\ m_pc = "idle"
    /\ profile = NullContact
    /\ search_args = <<>>
    /\ search_results = <<>>
    /\ i = 0
    /\ linkedin_profile = NullProfile
    /\ score = 0
    /\ best_match = NoMatch
    /\ best_score = 0
    /\ m_result = Pending
    /\ search_calls = 0
    /\ profile_log = <<>>
    /\ contact_log = <<>>
    /\ top_score = 0
    /\ top_first = 0
    /\ best_idx = 0
    /\ first_pass = 0
    /\ failed_call = "none"

SingleInit ==
    /\ u_pc = "idle"
    /\ u_uuid = 0
    /\ contact = NullContact
    /\ u_match = NoMatch
    /\ u_url = NoneVal
    /\ u_result = "pending"

BatchInit ==
    /\ b_pc = "idle"
    /\ page = 0
    /\ contacts = <<>>
    /\ idx = 0
    /\ processed = 0
    /\ updated = 0
    /\ contact_errors = 0
    /\ search_failed = FALSE
    /\ page_log = <<>>

TextInit ==
    /\ t_pc = "idle"
    /\ text_a = <<>>
    /\ text_b = <<>>
    /\ clean_a = <<>>
    /\ clean_b = <<>>
    /\ clean2_a = <<>>
    /\ sim_ab = 0
    /\ sim_ba = 0

CoreInit ==
    /\ op = "none"
    /\ store \in Stores
    /\ store0 = store
    /\ dry_run = FALSE
    /\ batch_size = 0
    /\ run = 1
    /\ written1 = {}
    /\ matched = {}
    /\ update_calls = <<>>
    /\ BatchInit
    /\ SingleInit
    /\ MatcherInit

\* No _analyze_experience call has returned yet
NoAnalysis ==
    [has_company_match |-> FALSE, has_title_match |-> FALSE,
     best_company |-> 0, best_title |-> 0,
     company_similarity |-> NoText, title_similarity |-> NoText]

AnalysisInit ==
    /\ a_pc = "idle"
    /\ a_experience = <<>>
    /\ a_target_company = <<>>
    /\ a_target_title = <<>>
    /\ a_result = NoAnalysis

Threads == 1..NumThreads

\* APIClientManager.__init__: no client yet, the lock is free
ClientInit ==
    /\ cm_lock = 0
    /\ cm_api_client = 0
    /\ cm_pc = [t \in Threads |-> "idle"]
    /\ cm_nested = [t \in Threads |-> FALSE]
    /\ cm_result = [t \in Threads |-> "pending"]
    /\ cm_calls = [t \in Threads |-> 0]
    /\ cm_instance = 1
    /\ cm_initialized = "true"
    /\ cm_instances = 1
    /\ cm_auth_calls = 0
    /\ cm_auth_cached = FALSE
    /\ cm_clients = 0
    /\ cm_got = [t \in Threads |-> 0]

\* An exception a wrapped function raised: whether its class is in the
\* decorator's exceptions tuple, and which invocation raised it
NoException == [in_E |-> FALSE, call |-> 0]
NoOutcome == [kind |-> "pending", call |-> 0, exc |-> NoException]

\* retry: no wrapped call has been made
RetryInit ==
    /\ r_pc = "ready"
    /\ max_attempts = 3
    /\ delay = 1
    /\ backoff = 2
    /\ attempt = 0
    /\ current_delay = 0
    /\ last_exception = NoException
    /\ r_result = NoOutcome
    /\ r_outcomes = <<>>
    /\ r_sleeps = <<>>

\* Token sets, token information and the storage file. A token set carries
\* the number the token endpoint gave it and whether its access token names an
\* organization; number 0 stands for no tokens (None).
OrgId == "org-1"
NoTokens == [id |-> 0, has_org |-> FALSE]
NoTokenInfo == [tokens |-> NoTokens, org_id |-> NoneVal, expires_at |-> 0]
NoFile == [fmt |-> "absent", key |-> 0, legacy |-> FALSE, data |-> NoTokenInfo]
NoResponse == [kind |-> "none", state |-> 0]
NoAuthResult == [kind |-> "pending", tokens |-> NoTokens, org_id |-> NoneVal]

\* OAuthManager.__init__ with storage on and no encryption; authenticate idle
OAuthInit ==
    /\ o_pc = "idle"
    /\ o_enabled = TRUE
    /\ o_encrypt = FALSE
    /\ o_key = 0
    /\ o_file = NoFile
    /\ o_now = 0
    /\ o_force = FALSE
    /\ o_token_info = NoTokenInfo
    /\ o_state = 0
    /\ o_response = NoResponse
    /\ o_result = NoAuthResult
    /\ o_managers = 1
    /\ o_auth_calls = 0
    /\ o_tokens = 0
    /\ o_flows = 0
    /\ o_exchanges = 0
    /\ o_saves = 0
    /\ o_saved_by = 0
    /\ o_saves0 = 0
    /\ o_exchanges0 = 0
    /\ o_flows0 = 0

\* The definitions cache: is_none stands for None; a timestamp of NoStamp
\* stands for None
NoStamp == -1
NoCache == [is_none |-> TRUE, defs |-> <<>>]
NoDefinitions == [kind |-> "pending", defs |-> <<>>]

\* CustomFieldRepository.__init__
CacheInit ==
    /\ c_pc = "idle"
    /\ _definitions_cache = NoCache
    /\ _cache_timestamp = NoStamp
    /\ c_now = 0
    /\ c_ticks = 0
    /\ c_calls = 0
    /\ c_force = FALSE
    /\ c_result = NoDefinitions
    /\ c_requests = 0
    /\ c_cache0 = NoCache
    /\ c_timestamp0 = NoStamp
    /\ c_now0 = 0
    /\ c_requests0 = 0

\* A profile URL is the position of its candidate in the search results;
\* NoUrl stands for None and for an empty URL
NoUrl == 0

\* The earlier LinkedInMatcher before a call, for a search without results
OldInit ==
    /\ lm_pc = "start"
    /\ lm_two_parts = TRUE
    /\ lm_search_results = <<>>
    /\ lm_i = 1
    /\ lm_best_match = NoUrl
    /\ lm_best_score = 0
    /\ lm_result = NoUrl

Workers == 1..NumWorkers

\* RateLimiter.__init__: no call is active and every worker is idle
LimiterInit ==
    /\ rl_pc = [w \in Workers |-> "idle"]
    /\ active_calls = 0
    /\ rl_loaded = [w \in Workers |-> 0]
    /\ rl_requests = [w \in Workers |-> 0]
    /\ rl_result = [w \in Workers |-> "none"]

LaterInit ==
    /\ RetryInit
    /\ OAuthInit
    /\ CacheInit
    /\ OldInit
    /\ LimiterInit

Init ==
    /\ CoreInit
    /\ LaterInit
    /\ TextInit
    /\ AnalysisInit
    /\ ClientInit

\* ------------------------------------------------------------------------
\* LinkedInService.find_linkedin_profile
\* ------------------------------------------------------------------------
HitBound == IF op = "find" THEN MaxHits ELSE MaxHitsBatch

HitLists(n) ==
    UNION { { [k \in 1..len |-> [urn_id |-> IF k \in missing THEN NoUrn ELSE k]] :
                missing \in {m \in SUBSET (1..len) : Cardinality(m) <= MaxNoUrn} } :
            len \in 0..n }

\* Variant: the whole result list is scanned
ScanLen_all(results) == Len(results)

\* Variant: the slice is one hit too long
ScanLen_six(results) == Min(Len(results), SCAN_LIMIT + 1)

\* search_results[:5]
ScanLen(results) == Min(Len(results), SCAN_LIMIT)

\* Entry of find_linkedin_profile up to the search_people call
Find_Begin ==
    /\ m_pc = "begin"
    /\ LET name_parts == SplitMax1(profile.name)
       IN IF Len(name_parts) # 2
          THEN /\ m_pc' = "done"
               /\ m_result' = Result("none", NoMatch)
               /\ search_args' = search_args
          ELSE /\ m_pc' = "search"
               /\ search_args' = <<_clean_text(name_parts[1]), _clean_text(name_parts[2])>>
               /\ m_result' = m_result
    /\ UNCHANGED <<profile, search_results, i, linkedin_profile, score, best_match,
                   best_score, search_calls, profile_log, contact_log, top_score,
                   top_first, best_idx, first_pass, failed_call>>
    /\ UNCHANGED <<runVars, storeVars, batchVars, singleVars>>
    /\ UNCHANGED otherVars

\* self.api.search_people(...) raises
Find_SearchFails ==
    /\ m_pc = "search"
    /\ search_calls' = search_calls + 1
    /\ failed_call' = "search_people"
    /\ m_pc' = "done"
    /\ m_result' = Result("error", NoMatch)
    /\ UNCHANGED <<profile, search_args, search_results, i, linkedin_profile, score,
                   best_match, best_score, profile_log, contact_log, top_score,
                   top_first, best_idx, first_pass>>
    /\ UNCHANGED <<runVars, storeVars, batchVars, singleVars>>
    /\ UNCHANGED otherVars

\* Variant: an empty result is treated as a failure of the match
Find_Search_emptyraises ==
    /\ m_pc = "search"
    /\ \E results \in HitLists(HitBound) :
         /\ search_calls' = search_calls + 1
         /\ search_results' = results
         /\ IF results = <<>>
            THEN /\ m_pc' = "done"
                 /\ m_result' = Result("error", NoMatch)
                 /\ UNCHANGED <<i, best_match, best_score>>
            ELSE /\ m_pc' = "loop"
                 /\ i' = 1
                 /\ best_match' = NoMatch
                 /\ best_score' = 0
                 /\ m_result' = m_result
    /\ UNCHANGED <<profile, search_args, linkedin_profile, score, profile_log,
                   contact_log, top_score, top_first, best_idx, first_pass, failed_call>>
    /\ UNCHANGED <<runVars, storeVars, batchVars, singleVars>>
    /\ UNCHANGED otherVars

\* self.api.search_people(...) returns; an empty result ends the match
Find_Search ==
    /\ m_pc = "search"
    /\ \E results \in HitLists(HitBound) :
         /\ search_calls' = search_calls + 1
         /\ search_results' = results
         /\ IF results = <<>>
            THEN /\ m_pc' = "done"
                 /\ m_result' = Result("none", NoMatch)
                 /\ UNCHANGED <<i, best_match, best_score>>
            ELSE /\ m_pc' = "loop"
                 /\ i' = 1
                 /\ best_match' = NoMatch
                 /\ best_score' = 0
                 /\ m_result' = m_result
    /\ UNCHANGED <<profile, search_args, linkedin_profile, score, profile_log,
                   contact_log, top_score, top_first, best_idx, first_pass, failed_call>>
    /\ UNCHANGED <<runVars, storeVars, batchVars, singleVars>>
    /\ UNCHANGED otherVars

\* A hit without urn_id is skipped (continue)
Find_SkipHit ==
    /\ m_pc = "loop"
    /\ i <= ScanLen(search_results)
    /\ search_results[i].urn_id = NoUrn
    /\ i' = i + 1
    /\ UNCHANGED <<m_pc, profile, search_args, search_results, linkedin_profile, score,
                   best_match, best_score, m_result, search_calls, profile_log,
                   contact_log, top_score, top_first, best_idx, first_pass, failed_call>>
    /\ UNCHANGED <<runVars, storeVars, batchVars, singleVars>>
    /\ UNCHANGED otherVars

\* self.api.get_profile(urn_id=profile_urn) raises, or calculate_similarity
\* raises on what it returned
Find_GetProfileFails ==
    /\ m_pc = "loop"
    /\ i <= ScanLen(search_results)
    /\ search_results[i].urn_id # NoUrn
    /\ profile_log' = Append(profile_log, search_results[i].urn_id)
    /\ failed_call' = "get_profile"
    /\ m_pc' = "done"
    /\ m_result' = Result("error", NoMatch)
    /\ UNCHANGED <<profile, search_args, search_results, i, linkedin_profile, score,
                   best_match, best_score, search_calls, contact_log, top_score,
                   top_first, best_idx, first_pass>>
    /\ UNCHANGED <<runVars, storeVars, batchVars, singleVars>>
    /\ UNCHANGED otherVars

\* self.api.get_profile(urn_id=profile_urn) returns and the candidate is scored
Find_GetProfile ==
    /\ m_pc = "loop"
    /\ i <= ScanLen(search_results)
    /\ search_results[i].urn_id # NoUrn
    /\ \E p \in Profiles :
         /\ linkedin_profile' = p
         /\ score' = calculate_similarity(p)
         /\ top_score' = Max(top_score, calculate_similarity(p))
         /\ top_first' = IF calculate_similarity(p) > top_score THEN i ELSE top_first
         /\ first_pass' = IF first_pass = 0 /\ calculate_similarity(p) >= SIMILARITY_THRESHOLD
                          THEN i ELSE first_pass
    /\ profile_log' = Append(profile_log, search_results[i].urn_id)
    /\ m_pc' = "contact_info"
    /\ UNCHANGED <<profile, search_args, search_results, i, best_match, best_score,
                   m_result, search_calls, contact_log, best_idx, failed_call>>
    /\ UNCHANGED <<runVars, storeVars, batchVars, singleVars>>
    /\ UNCHANGED otherVars

\* Variant: the exception is swallowed and the match ends with None
Find_GetContactInfoFails_swallowed ==
    /\ m_pc = "contact_info"
    /\ contact_log' = Append(contact_log, search_results[i].urn_id)
    /\ failed_call' = "get_profile_contact_info"
    /\ m_pc' = "done"
    /\ m_result' = Result("none", NoMatch)
    /\ UNCHANGED <<profile, search_args, search_results, i, linkedin_profile, score,
                   best_match, best_score, search_calls, profile_log, top_score,
                   top_first, best_idx, first_pass>>
    /\ UNCHANGED <<runVars, storeVars, batchVars, singleVars>>
    /\ UNCHANGED otherVars

\* self.api.get_profile_contact_info(urn_id=profile_urn) raises
Find_GetContactInfoFails ==
    /\ m_pc = "contact_info"
    /\ contact_log' = Append(contact_log, search_results[i].urn_id)
    /\ failed_call' = "get_profile_contact_info"
    /\ m_pc' = "done"
    /\ m_result' = Result("error", NoMatch)
    /\ UNCHANGED <<profile, search_args, search_results, i, linkedin_profile, score,
                   best_match, best_score, search_calls, profile_log, top_score,
                   top_first, best_idx, first_pass>>
    /\ UNCHANGED <<runVars, storeVars, batchVars, singleVars>>
    /\ UNCHANGED otherVars

\* Variant: a candidate that ties the best replaces it
IsNewBest_geq(s, best) == s >= best

\* Variant: every candidate replaces the best
IsNewBest_always(s, best) == TRUE

IsNewBest(s, best) == s > best

\* best_match built from the current candidate
NewBest(p, s, public_profile_url) ==
    LET experience_analysis == _analyze_experience(p)
        profile_url ==
            IF ~Truthy(public_profile_url) /\ Truthy(p.public_id)
            THEN LINKEDIN_BASE_URL \o p.public_id
            ELSE public_profile_url
    IN [found |-> TRUE, url |-> profile_url, score |-> s,
        company |-> experience_analysis.best_company,
        title |-> experience_analysis.best_title,
        public_id |-> p.public_id]

\* self.api.get_profile_contact_info(urn_id=profile_urn) returns; the
\* candidate replaces best_match when its score is higher than best_score
Find_GetContactInfo ==
    /\ m_pc = "contact_info"
    /\ contact_log' = Append(contact_log, search_results[i].urn_id)
    /\ \E public_profile_url \in ContactInfoUrls :
         IF IsNewBest(score, best_score)
         THEN /\ best_score' = score
              /\ best_match' = NewBest(linkedin_profile, score, public_profile_url)
              /\ best_idx' = i
         ELSE UNCHANGED <<best_score, best_match, best_idx>>
    /\ i' = i + 1
    /\ m_pc' = "loop"
    /\ UNCHANGED <<profile, search_args, search_results, linkedin_profile, score,
                   m_result, search_calls, profile_log, top_score, top_first,
                   first_pass, failed_call>>
    /\ UNCHANGED <<runVars, storeVars, batchVars, singleVars>>
    /\ UNCHANGED otherVars

\* Variant: any best match is returned
Accepts_any(m) == m.found

Accepts(m) == m.found /\ m.score >= SIMILARITY_THRESHOLD

\* After the loop: the best match is returned if it meets the threshold
Find_Return ==
    /\ m_pc = "loop"
    /\ i > ScanLen(search_results)
    /\ m_pc' = "done"
    /\ m_result' = IF Accepts(best_match)
                   THEN Result("match", best_match)
                   ELSE Result("none", NoMatch)
    /\ UNCHANGED <<profile, search_args, search_results, i, linkedin_profile, score,
                   best_match, best_score, search_calls, profile_log, contact_log,
                   top_score, top_first, best_idx, first_pass, failed_call>>
    /\ UNCHANGED <<runVars, storeVars, batchVars, singleVars>>
    /\ UNCHANGED otherVars

FindSteps ==
    \/ Find_Begin
    \/ Find_SearchFails
    \/ Find_Search
    \/ Find_SkipHit
    \/ Find_GetProfileFails
    \/ Find_GetProfile
    \/ Find_GetContactInfoFails
    \/ Find_GetContactInfo
    \/ Find_Return

\* A caller outside the updater calls find_linkedin_profile(profile)
DirectNames ==
    { <<>>, <<" ">>, <<"A">>, <<" ", "A", "-", " ">>, <<" ", " ", " ">>,
      <<"A", "-", "A">>, <<"A", " ", "A">>, <<"-", " ", " ", "A", " ">> }

CallFind ==
    /\ op = "none"
    /\ \E name \in DirectNames :
         profile' = [uuid |-> 0, name |-> name, custom_fields |-> <<>>]
    /\ op' = "find"
    /\ m_pc' = "begin"
    /\ UNCHANGED <<dry_run, batch_size, store0, run, written1>>
    /\ UNCHANGED <<search_args, search_results, i, linkedin_profile, score, best_match,
                   best_score, m_result, search_calls, profile_log, contact_log,
                   top_score, top_first, best_idx, first_pass, failed_call>>
    /\ UNCHANGED <<storeVars, batchVars, singleVars>>
    /\ UNCHANGED otherVars

\* ------------------------------------------------------------------------
\* The contact store as the updater uses it (repositories.contacts)
\* ------------------------------------------------------------------------
RECURSIVE set_custom_field(_, _, _)
set_custom_field(custom_fields, field_name, value) ==
    IF custom_fields = <<>> THEN <<Field(field_name, value)>>
    ELSE IF Head(custom_fields).name = field_name
         THEN <<Field(field_name, value)>> \o Tail(custom_fields)
         ELSE <<Head(custom_fields)>> \o set_custom_field(Tail(custom_fields), field_name, value)

\* contacts.search(page, page_size): the contacts of one page, in uuid order
search_page(st, pg, page_size) ==
    LET first == (pg - 1) * page_size + 1
        last == Min(pg * page_size, NumContacts)
    IN [k \in 1..Max(last - first + 1, 0) |-> st[first + k - 1]]

MatcherReset ==
    /\ m_pc' = "idle"
    /\ profile' = NullContact
    /\ search_args' = <<>>
    /\ search_results' = <<>>
    /\ i' = 0
    /\ linkedin_profile' = NullProfile
    /\ score' = 0
    /\ best_match' = NoMatch
    /\ best_score' = 0
    /\ m_result' = Pending
    /\ search_calls' = 0
    /\ profile_log' = <<>>
    /\ contact_log' = <<>>
    /\ top_score' = 0
    /\ top_first' = 0
    /\ best_idx' = 0
    /\ first_pass' = 0
    /\ failed_call' = "none"

\* ------------------------------------------------------------------------
\* WorkflowMaxLinkedInService.update_single_contact
\* ------------------------------------------------------------------------
\* A caller outside the batch calls update_single_contact(uuid, dry_run)
CallSingle ==
    /\ op = "none"
    /\ op' = "single"
    /\ \E u \in Uuids : u_uuid' = u
    /\ \E d \in BOOLEAN : dry_run' = d
    /\ u_pc' = "get"
    /\ UNCHANGED <<batch_size, store0, run, written1, contact, u_match, u_url, u_result>>
    /\ UNCHANGED <<storeVars, batchVars, matcherVars>>
    /\ UNCHANGED otherVars

\* contacts.get_by_uuid(contact_uuid) raises
USC_GetContactFails ==
    /\ u_pc = "get"
    /\ u_pc' = "done"
    /\ u_result' = "error"
    /\ UNCHANGED <<u_uuid, contact, u_match, u_url>>
    /\ UNCHANGED <<runVars, storeVars, batchVars, matcherVars>>
    /\ UNCHANGED otherVars

\* Variant: the field is looked up under another name
HasLinkedIn_wrongname(c) == Truthy(get_custom_field_value(c.custom_fields, "LINKEDIN"))

HasLinkedIn(c) == Truthy(get_custom_field_value(c.custom_fields, LINKEDIN_FIELD))

\* contacts.get_by_uuid returns; a contact that has a LinkedIn profile ends
\* the call with None, any other is passed to find_linkedin_profile
USC_GetContact ==
    /\ u_pc = "get"
    /\ contact' = store[u_uuid]
    /\ IF HasLinkedIn(store[u_uuid])
       THEN /\ u_pc' = "done"
            /\ u_result' = "none"
            /\ UNCHANGED <<matched, matcherVars>>
       ELSE /\ u_pc' = "match"
            /\ u_result' = u_result
            /\ matched' = matched \cup {u_uuid}
            /\ profile' = store[u_uuid]
            /\ m_pc' = "begin"
            /\ UNCHANGED <<search_args, search_results, i, linkedin_profile, score,
                           best_match, best_score, m_result, search_calls, profile_log,
                           contact_log, top_score, top_first, best_idx, first_pass, failed_call>>
    /\ UNCHANGED <<u_uuid, u_match, u_url>>
    /\ UNCHANGED <<runVars, store, update_calls, batchVars>>
    /\ UNCHANGED otherVars

\* profile_url of update_single_contact
MatchUrl(match) ==
    IF ~Truthy(match.url) /\ Truthy(match.public_id)
    THEN LINKEDIN_BASE_URL \o match.public_id
    ELSE match.url

\* Variant: only a missing URL is skipped, an empty one is not
NoUrlAvailable_isnone(profile_url) == profile_url = NoneVal

\* if not profile_url: return None
NoUrlAvailable(profile_url) == ~Truthy(profile_url)

\* Variant: dry_run is not consulted
WantsUpdate_nodry(dry, match) == match.score >= SIMILARITY_THRESHOLD

WantsUpdate(dry, match) == ~dry /\ match.score >= SIMILARITY_THRESHOLD

\* find_linkedin_profile has ended: its exception is re-raised, no match and
\* no URL end the call with None, a dry run returns the match, otherwise the
\* update call follows
USC_AfterMatch ==
    /\ u_pc = "match"
    /\ m_pc = "done"
    /\ IF m_result.kind = "error"
       THEN /\ u_pc' = "done"
            /\ u_result' = "error"
            /\ UNCHANGED <<u_match, u_url>>
       ELSE IF m_result.kind = "none"
       THEN /\ u_pc' = "done"
            /\ u_result' = "none"
            /\ UNCHANGED <<u_match, u_url>>
       ELSE IF NoUrlAvailable(MatchUrl(m_result.match))
       THEN /\ u_pc' = "done"
            /\ u_result' = "none"
            /\ u_match' = m_result.match
            /\ u_url' = MatchUrl(m_result.match)
       ELSE /\ u_match' = m_result.match
            /\ u_url' = MatchUrl(m_result.match)
            /\ IF WantsUpdate(dry_run, m_result.match)
               THEN /\ u_pc' = "update"
                    /\ u_result' = u_result
               ELSE /\ u_pc' = "done"
                    /\ u_result' = "match"
    /\ MatcherReset
    /\ UNCHANGED <<u_uuid, contact>>
    /\ UNCHANGED <<runVars, storeVars, batchVars>>
    /\ UNCHANGED otherVars

UpdateCall(u, url, ok) == [uuid |-> u, url |-> url, ok |-> ok]

\* contacts.update_custom_field(uuid, 'LINKEDIN PROFILE', url) returns True
USC_Update ==
    /\ u_pc = "update"
    /\ update_calls' = Append(update_calls, UpdateCall(contact.uuid, u_url, TRUE))
    /\ store' = [store EXCEPT ![contact.uuid].custom_fields =
                    set_custom_field(@, LINKEDIN_FIELD, u_url)]
    /\ u_pc' = "done"
    /\ u_result' = "match"
    /\ UNCHANGED <<u_uuid, contact, u_match, u_url>>
    /\ UNCHANGED <<runVars, matched, batchVars, matcherVars>>
    /\ UNCHANGED otherVars

\* contacts.update_custom_field returns a falsy value
USC_UpdateReturnsFalse ==
    /\ u_pc = "update"
    /\ update_calls' = Append(update_calls, UpdateCall(contact.uuid, u_url, FALSE))
    /\ u_pc' = "done"
    /\ u_result' = "none"
    /\ UNCHANGED <<u_uuid, contact, u_match, u_url>>
    /\ UNCHANGED <<runVars, store, matched, batchVars, matcherVars>>
    /\ UNCHANGED otherVars

\* contacts.update_custom_field raises
USC_UpdateFails ==
    /\ u_pc = "update"
    /\ update_calls' = Append(update_calls, UpdateCall(contact.uuid, u_url, FALSE))
    /\ u_pc' = "done"
    /\ u_result' = "error"
    /\ UNCHANGED <<u_uuid, contact, u_match, u_url>>
    /\ UNCHANGED <<runVars, store, matched, batchVars, matcherVars>>
    /\ UNCHANGED otherVars

SingleSteps ==
    \/ USC_GetContactFails
    \/ USC_GetContact
    \/ USC_AfterMatch
    \/ USC_Update
    \/ USC_UpdateReturnsFalse
    \/ USC_UpdateFails

\* ------------------------------------------------------------------------
\* WorkflowMaxLinkedInService.update_missing_linkedin_profiles
\* ------------------------------------------------------------------------
CallBatch ==
    /\ op = "none"
    /\ op' = "batch"
    /\ \E n \in 1..MaxBatchSize : batch_size' = n
    /\ \E d \in BOOLEAN : dry_run' = d
    /\ processed' = 0
    /\ updated' = 0
    /\ page' = 1
    /\ b_pc' = "fetch"
    /\ UNCHANGED <<store0, run, written1, contacts, idx, contact_errors, search_failed,
                   page_log>>
    /\ UNCHANGED <<storeVars, singleVars, matcherVars>>
    /\ UNCHANGED otherVars

\* The same caller runs update_missing_linkedin_profiles a second time on the
\* store the first run left behind; nothing but the store is carried over
CallBatchAgain ==
    /\ op = "batch"
    /\ b_pc = "done"
    /\ run = 1
    /\ run' = 2
    /\ written1' = {update_calls[k].uuid :
                      k \in {j \in DOMAIN update_calls : update_calls[j].ok}}
    /\ \E n \in 1..MaxBatchSize : batch_size' = n
    /\ \E d \in BOOLEAN : dry_run' = d
    /\ processed' = 0
    /\ updated' = 0
    /\ page' = 1
    /\ b_pc' = "fetch"
    /\ contacts' = <<>>
    /\ idx' = 0
    /\ contact_errors' = 0
    /\ search_failed' = FALSE
    /\ page_log' = <<>>
    /\ store0' = store
    /\ matched' = {}
    /\ update_calls' = <<>>
    /\ UNCHANGED <<op, store, singleVars, matcherVars>>
    /\ UNCHANGED otherVars

\* contacts.search(page, page_size) raises WorkflowMaxError: break
UML_SearchFails ==
    /\ b_pc = "fetch"
    /\ b_pc' = "done"
    /\ search_failed' = TRUE
    /\ page_log' = Append(page_log, [page |-> page, page_size |-> batch_size])
    /\ UNCHANGED <<page, contacts, idx, processed, updated, contact_errors>>
    /\ UNCHANGED <<runVars, storeVars, singleVars, matcherVars>>
    /\ UNCHANGED otherVars

\* contacts.search(page, page_size) returns: an empty page ends the run
UML_Search ==
    /\ b_pc = "fetch"
    /\ LET result == search_page(store, page, batch_size)
       IN IF result = <<>>
          THEN /\ b_pc' = "done"
               /\ UNCHANGED <<contacts, idx>>
          ELSE /\ b_pc' = "loop"
               /\ contacts' = result
               /\ idx' = 1
    /\ page_log' = Append(page_log, [page |-> page, page_size |-> batch_size])
    /\ UNCHANGED <<page, processed, updated, contact_errors, search_failed>>
    /\ UNCHANGED <<runVars, storeVars, singleVars, matcherVars>>
    /\ UNCHANGED otherVars

\* One contact of the page: counted, skipped when it has a LinkedIn profile,
\* otherwise handed to update_single_contact
UML_NextContact ==
    /\ b_pc = "loop"
    /\ idx <= Len(contacts)
    /\ processed' = processed + 1
    /\ IF HasLinkedIn(contacts[idx])
       THEN /\ idx' = idx + 1
            /\ UNCHANGED <<b_pc, singleVars>>
       ELSE /\ b_pc' = "call"
            /\ idx' = idx
            /\ u_uuid' = contacts[idx].uuid
            /\ u_pc' = "get"
            /\ UNCHANGED <<contact, u_match, u_url, u_result>>
    /\ UNCHANGED <<page, contacts, updated, contact_errors, search_failed, page_log>>
    /\ UNCHANGED <<runVars, storeVars, matcherVars>>
    /\ UNCHANGED otherVars

\* Variant: every contact whose update_single_contact call returned is counted
CountsAsUpdated_any(result, match) == result # "error"

\* if match and match['score'] >= self.linkedin.SIMILARITY_THRESHOLD
CountsAsUpdated(result, match) ==
    result = "match" /\ match.score >= SIMILARITY_THRESHOLD

\* What the except clause of the batch loop does when a contact fails
OnContactError == "break"

\* update_single_contact has ended: its WorkflowMaxError reaches the except
\* clause around the page, a match at the threshold is counted
UML_AfterContact ==
    /\ b_pc = "call"
    /\ u_pc = "done"
    /\ IF u_result = "error" /\ OnContactError = "break"
       THEN /\ b_pc' = "done"
            /\ UNCHANGED <<idx, updated>>
       ELSE /\ b_pc' = "loop"
            /\ idx' = idx + 1
            /\ updated' = IF CountsAsUpdated(u_result, u_match)
                          THEN updated + 1 ELSE updated
    /\ contact_errors' = IF u_result = "error" THEN contact_errors + 1 ELSE contact_errors
    /\ u_pc' = "idle"
    /\ u_uuid' = 0
    /\ contact' = NullContact
    /\ u_match' = NoMatch
    /\ u_url' = NoneVal
    /\ u_result' = "pending"
    /\ UNCHANGED <<page, contacts, processed, search_failed, page_log>>
    /\ UNCHANGED <<runVars, storeVars, matcherVars>>
    /\ UNCHANGED otherVars

\* The page is exhausted: page += 1
UML_NextPage ==
    /\ b_pc = "loop"
    /\ idx > Len(contacts)
    /\ page' = page + 1
    /\ b_pc' = "fetch"
    /\ UNCHANGED <<contacts, idx, processed, updated, contact_errors, search_failed,
                   page_log>>
    /\ UNCHANGED <<runVars, storeVars, singleVars, matcherVars>>
    /\ UNCHANGED otherVars

BatchSteps ==
    \/ UML_SearchFails
    \/ UML_Search
    \/ UML_NextContact
    \/ UML_AfterContact
    \/ UML_NextPage

Next == CallSingle \/ CallBatch \/ BatchSteps \/ SingleSteps \/ FindSteps

Spec == Init /\ [][Next]_vars

InitMatch ==
    /\ Init
    /\ store = [u \in Uuids |-> [uuid |-> u, name |-> ContactName(u), custom_fields |-> <<>>]]

NextMatch == CallFind \/ FindSteps

SpecMatch == InitMatch /\ [][NextMatch]_vars

\* The text functions applied to a pair of raw strings: both are cleaned,
\* the first is cleaned again, and the two cleaned strings are compared in
\* both orders
Text_Clean ==
    /\ t_pc = "ready"
    /\ clean_a' = _clean_text(text_a)
    /\ clean_b' = _clean_text(text_b)
    /\ t_pc' = "cleaned"
    /\ UNCHANGED <<text_a, text_b, clean2_a, sim_ab, sim_ba>>
    /\ UNCHANGED <<laterVars, analysisVars, clientVars, runVars, storeVars, batchVars, singleVars, matcherVars>>

Text_CleanAgain ==
    /\ t_pc = "cleaned"
    /\ clean2_a' = _clean_text(clean_a)
    /\ t_pc' = "recleaned"
    /\ UNCHANGED <<text_a, text_b, clean_a, clean_b, sim_ab, sim_ba>>
    /\ UNCHANGED <<laterVars, analysisVars, clientVars, runVars, storeVars, batchVars, singleVars, matcherVars>>

Text_Compare ==
    /\ t_pc = "recleaned"
    /\ sim_ab' = ratio(clean_a, clean_b)
    /\ sim_ba' = ratio(clean_b, clean_a)
    /\ t_pc' = "compared"
    /\ UNCHANGED <<text_a, text_b, clean_a, clean_b, clean2_a>>
    /\ UNCHANGED <<laterVars, analysisVars, clientVars, runVars, storeVars, batchVars, singleVars, matcherVars>>

InitText ==
    /\ CoreInit
    /\ LaterInit
    /\ store = [u \in Uuids |-> [uuid |-> u, name |-> ContactName(u), custom_fields |-> <<>>]]
    /\ t_pc = "ready"
    /\ text_a \in Texts
    /\ text_b \in Texts
    /\ clean_a = <<>>
    /\ clean_b = <<>>
    /\ clean2_a = <<>>
    /\ sim_ab = 0
    /\ sim_ba = 0
    /\ AnalysisInit
    /\ ClientInit

NextText == Text_Clean \/ Text_CleanAgain \/ Text_Compare

SpecText == InitText /\ [][NextText]_vars

\* _analyze_experience on raw data: an entry with a falsy companyName (title)
\* is not compared; any other is cleaned and compared with the cleaned target
CompanyNames == {<<>>, <<"A">>, <<"b">>, <<"-">>, <<"A", "b">>}
Titles == {<<>>, <<"A">>, <<"b">>}
Roles == [companyName : CompanyNames, title : Titles]
Experiences == UNION {[1..n -> Roles] : n \in 0..MaxRoles}

ScoredRole(role, target_company, target_title) ==
    Entry(IF role.companyName = <<>> THEN NoText
          ELSE ratio(_clean_text(target_company), _clean_text(role.companyName)),
          IF role.title = <<>> THEN NoText
          ELSE ratio(_clean_text(target_title), _clean_text(role.title)))

ScoredProfile(experience, target_company, target_title) ==
    [nameSim |-> 0,
     experience |-> [k \in 1..Len(experience) |->
                       ScoredRole(experience[k], target_company, target_title)],
     public_id |-> NoneVal]

Analyze ==
    /\ a_pc = "ready"
    /\ a_result' = _analyze_experience(
                       ScoredProfile(a_experience, a_target_company, a_target_title))
    /\ a_pc' = "done"
    /\ UNCHANGED <<a_experience, a_target_company, a_target_title>>
    /\ UNCHANGED <<laterVars, textVars, clientVars, runVars, storeVars, batchVars, singleVars,
                   matcherVars>>

InitAnalysis ==
    /\ CoreInit
    /\ LaterInit
    /\ store = [u \in Uuids |-> [uuid |-> u, name |-> ContactName(u), custom_fields |-> <<>>]]
    /\ TextInit
    /\ a_pc = "ready"
    /\ a_experience \in Experiences
    /\ a_target_company \in CompanyNames
    /\ a_target_title \in Titles
    /\ a_result = NoAnalysis
    /\ ClientInit

NextAnalysis == Analyze

SpecAnalysis == InitAnalysis /\ [][NextAnalysis]_vars

\* ------------------------------------------------------------------------
\* APIClientManager: get_client, refresh_auth and clear_client called by
\* several threads; _lock is a threading.Lock, which is not reentrant
\* ------------------------------------------------------------------------
ManagerMethods == {"get_client", "refresh_auth", "clear_client"}
LockOf(method) ==
    IF method = "get_client" THEN "gc_lock"
    ELSE IF method = "refresh_auth" THEN "ra_lock"
    ELSE "cc_lock"
coreVars == <<runVars, storeVars, batchVars, singleVars, matcherVars>>

\* A thread calls one of the methods and arrives at its `with self._lock`
CM_Call(t) ==
    /\ cm_pc[t] = "idle"
    /\ cm_calls[t] < MaxCalls
    /\ \E method \in ManagerMethods : cm_pc' = [cm_pc EXCEPT ![t] = LockOf(method)]
    /\ cm_calls' = [cm_calls EXCEPT ![t] = @ + 1]
    /\ cm_result' = [cm_result EXCEPT ![t] = "pending"]
    /\ cm_nested' = [cm_nested EXCEPT ![t] = FALSE]
    /\ UNCHANGED <<cm_lock, cm_api_client>>
    /\ UNCHANGED <<coreVars, textVars, analysisVars, laterVars>>
    /\ UNCHANGED <<singletonVars, clientHist>>

\* `with self._lock` of get_client: Lock.acquire() blocks until the lock is
\* free, whoever holds it
GC_Acquire(t) ==
    /\ cm_pc[t] = "gc_lock"
    /\ cm_lock = 0
    /\ cm_lock' = t
    /\ cm_pc' = [cm_pc EXCEPT ![t] = "gc_body"]
    /\ UNCHANGED <<cm_api_client, cm_nested, cm_result, cm_calls>>
    /\ UNCHANGED <<coreVars, textVars, analysisVars, laterVars>>
    /\ UNCHANGED <<singletonVars, clientHist>>

\* if self._api_client is None
NeedsClient(api_client) == api_client = 0

\* get_client under the lock: the cached client is returned, or
\* authenticate() succeeds and a new client is cached and returned
GC_Body(t) ==
    /\ cm_pc[t] = "gc_body"
    /\ IF NeedsClient(cm_api_client)
       THEN /\ cm_auth_calls' = cm_auth_calls + 1
            /\ cm_auth_cached' = (cm_auth_cached \/ cm_api_client # 0)
            /\ cm_clients' = cm_clients + 1
            /\ cm_api_client' = cm_clients + 1
            /\ cm_got' = [cm_got EXCEPT ![t] = cm_clients + 1]
       ELSE /\ cm_got' = [cm_got EXCEPT ![t] = cm_api_client]
            /\ UNCHANGED <<cm_api_client, cm_auth_calls, cm_auth_cached, cm_clients>>
    /\ cm_result' = [cm_result EXCEPT ![t] = "client"]
    /\ cm_lock' = 0
    /\ cm_pc' = [cm_pc EXCEPT ![t] = "idle"]
    /\ UNCHANGED <<cm_nested, cm_calls, singletonVars>>
    /\ UNCHANGED <<coreVars, textVars, analysisVars, laterVars>>

\* get_client under the lock: authenticate() or set_auth raises;
\* AuthenticationError leaves the with block, which releases the lock
GC_AuthFails(t) ==
    /\ cm_pc[t] = "gc_body"
    /\ NeedsClient(cm_api_client)
    /\ cm_auth_calls' = cm_auth_calls + 1
    /\ cm_auth_cached' = (cm_auth_cached \/ cm_api_client # 0)
    /\ cm_result' = [cm_result EXCEPT ![t] = "AuthenticationError"]
    /\ cm_got' = [cm_got EXCEPT ![t] = 0]
    /\ cm_lock' = 0
    /\ cm_pc' = [cm_pc EXCEPT ![t] = "idle"]
    /\ UNCHANGED <<cm_api_client, cm_nested, cm_calls, cm_clients, singletonVars>>
    /\ UNCHANGED <<coreVars, textVars, analysisVars, laterVars>>

\* `with self._lock` of refresh_auth
RA_Acquire(t) ==
    /\ cm_pc[t] = "ra_lock"
    /\ cm_lock = 0
    /\ cm_lock' = t
    /\ cm_pc' = [cm_pc EXCEPT ![t] = "ra_body"]
    /\ UNCHANGED <<cm_api_client, cm_nested, cm_result, cm_calls>>
    /\ UNCHANGED <<coreVars, textVars, analysisVars, laterVars>>
    /\ UNCHANGED <<singletonVars, clientHist>>

\* refresh_auth under the lock: authenticate(force_refresh=True) succeeds,
\* the cached client (if any) gets the new tokens, the tokens are returned
RA_Body(t) ==
    /\ cm_pc[t] = "ra_body"
    /\ cm_result' = [cm_result EXCEPT ![t] = "tokens"]
    /\ cm_lock' = 0
    /\ cm_pc' = [cm_pc EXCEPT ![t] = "idle"]
    /\ UNCHANGED <<cm_api_client, cm_nested, cm_calls>>
    /\ UNCHANGED <<coreVars, textVars, analysisVars, laterVars>>
    /\ UNCHANGED <<singletonVars, clientHist>>

\* refresh_auth under the lock: authenticate or set_auth raises; the handler
\* calls self.clear_client() while the with block of refresh_auth still
\* holds the lock
RA_AuthFails(t) ==
    /\ cm_pc[t] = "ra_body"
    /\ cm_nested' = [cm_nested EXCEPT ![t] = TRUE]
    /\ cm_pc' = [cm_pc EXCEPT ![t] = "cc_lock"]
    /\ UNCHANGED <<cm_lock, cm_api_client, cm_result, cm_calls>>
    /\ UNCHANGED <<coreVars, textVars, analysisVars, laterVars>>
    /\ UNCHANGED <<singletonVars, clientHist>>

\* `with self._lock` of clear_client: the same lock, also when the caller is
\* refresh_auth's handler
CC_Acquire(t) ==
    /\ cm_pc[t] = "cc_lock"
    /\ cm_lock = 0
    /\ cm_lock' = t
    /\ cm_pc' = [cm_pc EXCEPT ![t] = "cc_body"]
    /\ UNCHANGED <<cm_api_client, cm_nested, cm_result, cm_calls>>
    /\ UNCHANGED <<coreVars, textVars, analysisVars, laterVars>>
    /\ UNCHANGED <<singletonVars, clientHist>>

\* clear_client under the lock: the client is dropped and the with block
\* releases the lock; back in refresh_auth's handler AuthenticationError is
\* raised
CC_Body(t) ==
    /\ cm_pc[t] = "cc_body"
    /\ cm_api_client' = 0
    /\ cm_lock' = 0
    /\ cm_result' = [cm_result EXCEPT ![t] =
                        IF cm_nested[t] THEN "AuthenticationError" ELSE "None"]
    /\ cm_pc' = [cm_pc EXCEPT ![t] = "idle"]
    /\ UNCHANGED <<cm_nested, cm_calls>>
    /\ UNCHANGED <<coreVars, textVars, analysisVars, laterVars>>
    /\ UNCHANGED <<singletonVars, clientHist>>

ThreadStep(t) ==
    \/ GC_Acquire(t)
    \/ GC_Body(t)
    \/ GC_AuthFails(t)
    \/ RA_Acquire(t)
    \/ RA_Body(t)
    \/ RA_AuthFails(t)
    \/ CC_Acquire(t)
    \/ CC_Body(t)

InitClient ==
    /\ CoreInit
    /\ LaterInit
    /\ store = [u \in Uuids |-> [uuid |-> u, name |-> ContactName(u), custom_fields |-> <<>>]]
    /\ TextInit
    /\ AnalysisInit
    /\ ClientInit

NextClient == \E t \in Threads : CM_Call(t) \/ ThreadStep(t)

\* Every thread that can take a step of a method it is in eventually takes
\* one (the interpreter schedules every runnable thread)
SpecClient ==
    /\ InitClient
    /\ [][NextClient]_vars
    /\ \A t \in Threads : WF_vars(ThreadStep(t))

\* ------------------------------------------------------------------------
\* APIClientManager(): __new__ and __init__ run by threads that have no
\* manager yet, followed by get_client calls
\* ------------------------------------------------------------------------
\* APIClientManager() is called; __new__ reads cls._instance without the lock
CM_Construct(t) ==
    /\ cm_pc[t] \in {"nomgr", "idle"}
    /\ cm_calls[t] < MaxCalls
    /\ cm_pc' = [cm_pc EXCEPT ![t] = IF cm_instance = 0 THEN "n_lock" ELSE "i_check"]
    /\ cm_calls' = [cm_calls EXCEPT ![t] = @ + 1]
    /\ cm_result' = [cm_result EXCEPT ![t] = "pending"]
    /\ UNCHANGED <<cm_lock, cm_api_client, cm_nested, singletonVars, clientHist>>
    /\ UNCHANGED <<coreVars, textVars, analysisVars, laterVars>>

\* `with cls._lock` of __new__
N_Acquire(t) ==
    /\ cm_pc[t] = "n_lock"
    /\ cm_lock = 0
    /\ cm_lock' = t
    /\ cm_pc' = [cm_pc EXCEPT ![t] = "n_create"]
    /\ UNCHANGED <<cm_api_client, cm_nested, cm_result, cm_calls, singletonVars, clientHist>>
    /\ UNCHANGED <<coreVars, textVars, analysisVars, laterVars>>

\* Under the lock: cls._instance is read again and, when still None, set to
\* a new object, which has no _initialized attribute yet
N_Create(t) ==
    /\ cm_pc[t] = "n_create"
    /\ IF cm_instance = 0
       THEN /\ cm_instance' = cm_instances + 1
            /\ cm_instances' = cm_instances + 1
            /\ cm_initialized' = "unset"
            /\ cm_pc' = [cm_pc EXCEPT ![t] = "n_flag"]
            /\ cm_lock' = cm_lock
       ELSE /\ cm_lock' = 0
            /\ cm_pc' = [cm_pc EXCEPT ![t] = "i_check"]
            /\ UNCHANGED singletonVars
    /\ UNCHANGED <<cm_api_client, cm_nested, cm_result, cm_calls, clientHist>>
    /\ UNCHANGED <<coreVars, textVars, analysisVars, laterVars>>

\* cls._instance._initialized = False, the with block ends, __new__ returns
N_SetFlag(t) ==
    /\ cm_pc[t] = "n_flag"
    /\ cm_initialized' = "false"
    /\ cm_lock' = 0
    /\ cm_pc' = [cm_pc EXCEPT ![t] = "i_check"]
    /\ UNCHANGED <<cm_instance, cm_instances>>
    /\ UNCHANGED <<cm_api_client, cm_nested, cm_result, cm_calls, clientHist>>
    /\ UNCHANGED <<coreVars, textVars, analysisVars, laterVars>>

\* __init__ reads self._initialized without the lock: the attribute may not
\* exist yet (AttributeError), be False (go on to the lock) or True (done)
I_Check(t) ==
    /\ cm_pc[t] = "i_check"
    /\ IF cm_initialized = "unset"
       THEN /\ cm_result' = [cm_result EXCEPT ![t] = "AttributeError"]
            /\ cm_pc' = [cm_pc EXCEPT ![t] = "nomgr"]
       ELSE IF cm_initialized = "false"
       THEN /\ cm_pc' = [cm_pc EXCEPT ![t] = "i_lock"]
            /\ cm_result' = cm_result
       ELSE /\ cm_result' = [cm_result EXCEPT ![t] = "manager"]
            /\ cm_pc' = [cm_pc EXCEPT ![t] = "idle"]
    /\ UNCHANGED <<cm_lock, cm_api_client, cm_nested, cm_calls, singletonVars, clientHist>>
    /\ UNCHANGED <<coreVars, textVars, analysisVars, laterVars>>

\* `with self._lock` of __init__
I_Acquire(t) ==
    /\ cm_pc[t] = "i_lock"
    /\ cm_lock = 0
    /\ cm_lock' = t
    /\ cm_pc' = [cm_pc EXCEPT ![t] = "i_init"]
    /\ UNCHANGED <<cm_api_client, cm_nested, cm_result, cm_calls, singletonVars, clientHist>>
    /\ UNCHANGED <<coreVars, textVars, analysisVars, laterVars>>

\* Under the lock: unless another thread did it, _api_client = None and
\* _initialized = True
I_Init(t) ==
    /\ cm_pc[t] = "i_init"
    /\ IF cm_initialized # "true"
       THEN /\ cm_api_client' = 0
            /\ cm_initialized' = "true"
       ELSE UNCHANGED <<cm_api_client, cm_initialized>>
    /\ cm_lock' = 0
    /\ cm_result' = [cm_result EXCEPT ![t] = "manager"]
    /\ cm_pc' = [cm_pc EXCEPT ![t] = "idle"]
    /\ UNCHANGED <<cm_instance, cm_instances, cm_nested, cm_calls, clientHist>>
    /\ UNCHANGED <<coreVars, textVars, analysisVars, laterVars>>

\* A thread that holds the manager calls get_client
CM_GetClient(t) ==
    /\ cm_pc[t] = "idle"
    /\ cm_calls[t] < MaxCalls
    /\ cm_pc' = [cm_pc EXCEPT ![t] = "gc_lock"]
    /\ cm_calls' = [cm_calls EXCEPT ![t] = @ + 1]
    /\ cm_result' = [cm_result EXCEPT ![t] = "pending"]
    /\ UNCHANGED <<cm_lock, cm_api_client, cm_nested, singletonVars, clientHist>>
    /\ UNCHANGED <<coreVars, textVars, analysisVars, laterVars>>

ConstructStep(t) ==
    \/ N_Acquire(t)
    \/ N_Create(t)
    \/ N_SetFlag(t)
    \/ I_Check(t)
    \/ I_Acquire(t)
    \/ I_Init(t)

\* No manager exists yet and no thread holds one
InitSingleton ==
    /\ CoreInit
    /\ LaterInit
    /\ store = [u \in Uuids |-> [uuid |-> u, name |-> ContactName(u), custom_fields |-> <<>>]]
    /\ TextInit
    /\ AnalysisInit
    /\ cm_lock = 0
    /\ cm_api_client = 0
    /\ cm_pc = [t \in Threads |-> "nomgr"]
    /\ cm_nested = [t \in Threads |-> FALSE]
    /\ cm_result = [t \in Threads |-> "pending"]
    /\ cm_calls = [t \in Threads |-> 0]
    /\ cm_instance = 0
    /\ cm_initialized = "unset"
    /\ cm_instances = 0
    /\ cm_auth_calls = 0
    /\ cm_auth_cached = FALSE
    /\ cm_clients = 0
    /\ cm_got = [t \in Threads |-> 0]

NextSingleton ==
    \E t \in Threads :
        \/ CM_Construct(t)
        \/ ConstructStep(t)
        \/ CM_GetClient(t)
        \/ GC_Acquire(t)
        \/ GC_Body(t)
        \/ GC_AuthFails(t)

SpecSingleton == InitSingleton /\ [][NextSingleton]_vars

\* Two batch runs in a row on a store where every contact still misses the
\* LinkedIn field
InitRerun == InitMatch

NextRerun == CallBatch \/ CallBatchAgain \/ BatchSteps \/ SingleSteps \/ FindSteps

SpecRerun == InitRerun /\ [][NextRerun]_vars

\* ------------------------------------------------------------------------
\* core/utils.py: retry (the same text in src/mtd_workflowmax/core/utils.py)

\* Everything but the decorator stays as it is
quietVars == <<coreVars, textVars, analysisVars, clientVars>>

Delays == {1, 2}
Backoffs == {1, 2}
FuncOutcomes == {"return", "raise_E", "raise_other"}

\* Variant: no attempt is taken to be the last one
IsLastAttempt_never(a, n) == FALSE

\* if attempt == max_attempts - 1
IsLastAttempt(a, n) == a = n - 1

\* wrapper(*args, **kwargs) up to the for statement
Retry_Call ==
    /\ r_pc = "ready"
    /\ attempt' = 0
    /\ current_delay' = delay
    /\ last_exception' = NoException
    /\ r_outcomes' = <<>>
    /\ r_sleeps' = <<>>
    /\ IF max_attempts > 0
       THEN /\ r_pc' = "try"
            /\ r_result' = NoOutcome
       ELSE \* range(0) is empty: raise last_exception with last_exception None
            /\ r_pc' = "done"
            /\ r_result' = [kind |-> "TypeError", call |-> 0, exc |-> NoException]
    /\ UNCHANGED <<max_attempts, delay, backoff>>
    /\ UNCHANGED <<quietVars, notRetry>>

\* One pass through the try statement: func is invoked and returns or raises
Retry_Invoke(outcome) ==
    /\ r_pc = "try"
    /\ LET k == Len(r_outcomes) + 1
           e == [in_E |-> outcome = "raise_E", call |-> k]
       IN /\ r_outcomes' = Append(r_outcomes, outcome)
          /\ CASE outcome = "return" ->
                    /\ r_result' = [kind |-> "return", call |-> k, exc |-> NoException]
                    /\ r_pc' = "done"
                    /\ UNCHANGED last_exception
               [] outcome = "raise_other" ->
                    /\ r_result' = [kind |-> "raise", call |-> k, exc |-> e]
                    /\ r_pc' = "done"
                    /\ UNCHANGED last_exception
               [] outcome = "raise_E" ->
                    /\ last_exception' = e
                    /\ IF IsLastAttempt(attempt, max_attempts)
                       THEN /\ r_result' = [kind |-> "raise", call |-> k, exc |-> e]
                            /\ r_pc' = "done"
                       ELSE /\ r_pc' = "sleep"
                            /\ UNCHANGED r_result
    /\ UNCHANGED <<max_attempts, delay, backoff, attempt, current_delay, r_sleeps>>
    /\ UNCHANGED <<quietVars, notRetry>>

\* time.sleep(current_delay); current_delay *= backoff; next turn of the loop
Retry_Sleep ==
    /\ r_pc = "sleep"
    /\ r_sleeps' = Append(r_sleeps, current_delay)
    /\ current_delay' = current_delay * backoff
    /\ attempt' = attempt + 1
    /\ IF attempt + 1 < max_attempts
       THEN /\ r_pc' = "try"
            /\ UNCHANGED r_result
       ELSE \* the loop is exhausted: raise last_exception
            /\ r_pc' = "done"
            /\ r_result' = [kind |-> "raise", call |-> Len(r_outcomes), exc |-> last_exception]
    /\ UNCHANGED <<max_attempts, delay, backoff, last_exception, r_outcomes>>
    /\ UNCHANGED <<quietVars, notRetry>>

\* The decorated function is called again once the last call has ended
Retry_Again ==
    /\ r_pc = "done"
    /\ r_pc' = "ready"
    /\ UNCHANGED <<max_attempts, delay, backoff, attempt, current_delay, last_exception,
                   r_result, r_outcomes, r_sleeps>>
    /\ UNCHANGED <<quietVars, notRetry>>

InitQuiet ==
    /\ CoreInit
    /\ store = [u \in Uuids |-> [uuid |-> u, name |-> ContactName(u), custom_fields |-> <<>>]]
    /\ TextInit
    /\ AnalysisInit
    /\ ClientInit

InitRetry ==
    /\ InitQuiet
    /\ LimiterInit
    /\ OAuthInit
    /\ CacheInit
    /\ OldInit
    /\ r_pc = "ready"
    /\ max_attempts \in 0..MaxAttempts
    /\ delay \in Delays
    /\ backoff \in Backoffs
    /\ attempt = 0
    /\ current_delay = 0
    /\ last_exception = NoException
    /\ r_result = NoOutcome
    /\ r_outcomes = <<>>
    /\ r_sleeps = <<>>

NextRetry ==
    \/ Retry_Call
    \/ \E outcome \in FuncOutcomes : Retry_Invoke(outcome)
    \/ Retry_Sleep
    \/ Retry_Again

SpecRetry == InitRetry /\ [][NextRetry]_vars

\* ------------------------------------------------------------------------
\* api/auth.py: OAuthCallbackHandler and OAuthManager

ExpiresIn == 3          \* expires_in of every token response
RefreshThreshold == 1   \* auth_config.token_refresh.refresh_threshold

\* jwt.decode(access_token)...get('org_ids', []); org_ids[0] if org_ids else None
jwt_org_id(tokens) == IF tokens.has_org THEN OrgId ELSE NoneVal

\* A token file an earlier version left behind: the bare token response
LegacyFile ==
    [fmt |-> "json", key |-> 0, legacy |-> TRUE,
     data |-> [tokens |-> [id |-> 1, has_org |-> TRUE], org_id |-> NoneVal, expires_at |-> 0]]

\* Fernet(key).encrypt(json.dumps(token_info).encode())
_encrypt_token_info(key, token_info) ==
    [fmt |-> "fernet", key |-> key, legacy |-> FALSE, data |-> token_info]

\* Fernet(key).decrypt succeeds only on a token made with the same key
CanDecrypt(key, file) == file.fmt = "fernet" /\ file.key = key

\* _save_token_info: the file after the call
_save_token_info(enabled, key, token_info, file) ==
    IF ~enabled THEN file
    ELSE IF key # 0 THEN _encrypt_token_info(key, token_info)
    ELSE [fmt |-> "json", key |-> 0, legacy |-> FALSE, data |-> token_info]

\* The legacy branch of _load_token_info
FromStored(file, now) ==
    IF file.legacy
    THEN [tokens |-> file.data.tokens,
          org_id |-> jwt_org_id(file.data.tokens),
          expires_at |-> now + ExpiresIn]
    ELSE file.data

\* _load_token_info: NoTokenInfo stands for None
_load_token_info(enabled, key, file, now) ==
    IF ~enabled THEN NoTokenInfo
    ELSE IF file.fmt = "absent" THEN NoTokenInfo
    ELSE IF key # 0
         THEN IF CanDecrypt(key, file) THEN FromStored(file, now) ELSE NoTokenInfo
         ELSE IF file.fmt = "json" THEN FromStored(file, now) ELSE NoTokenInfo

\* OAuthCallbackHandler.do_GET: server.oauth_response for the query parameters
do_GET(has_error, has_code, has_state, st) ==
    IF has_error THEN [kind |-> "error", state |-> 0]
    ELSE IF has_code /\ has_state THEN [kind |-> "code", state |-> st]
    ELSE [kind |-> "error", state |-> 0]

\* Variant: any state on the callback is accepted
StateMatches_any(received, generated) == TRUE

\* not (response['state'] != state)
StateMatches(received, generated) == received = generated

Raised(kind) == [kind |-> kind, tokens |-> NoTokens, org_id |-> NoneVal]

\* A later process run: OAuthManager() is constructed again
OM_New ==
    /\ o_pc \in {"idle", "done"}
    /\ o_managers < MaxManagers
    /\ o_managers' = o_managers + 1
    /\ o_key' = IF o_encrypt THEN o_managers + 1 ELSE 0
    /\ o_pc' = "idle"
    /\ o_token_info' = NoTokenInfo
    /\ o_response' = NoResponse
    /\ o_result' = NoAuthResult
    /\ UNCHANGED <<o_enabled, o_encrypt, o_file, o_now, o_force, o_state,
                   o_auth_calls, o_tokens, o_flows, o_exchanges,
                   o_saves, o_saved_by, o_saves0, o_exchanges0, o_flows0>>
    /\ UNCHANGED <<quietVars, notOAuth>>

\* The clock advances
Tick ==
    /\ o_now < MaxTime
    /\ o_now' = o_now + 1
    /\ UNCHANGED <<o_pc, o_enabled, o_encrypt, o_key, o_file, o_force, o_token_info, o_state,
                   o_response, o_result, o_managers, o_auth_calls, o_tokens, o_flows,
                   o_exchanges, o_saves, o_saved_by, o_saves0, o_exchanges0, o_flows0>>
    /\ UNCHANGED <<quietVars, notOAuth>>

\* authenticate(force_refresh) is called
Auth_Call(force_refresh) ==
    /\ o_pc \in {"idle", "done"}
    /\ o_auth_calls < MaxAuthCalls
    /\ o_auth_calls' = o_auth_calls + 1
    /\ o_force' = force_refresh
    /\ o_token_info' = NoTokenInfo
    /\ o_response' = NoResponse
    /\ o_result' = NoAuthResult
    /\ o_saves0' = o_saves
    /\ o_exchanges0' = o_exchanges
    /\ o_flows0' = o_flows
    /\ o_pc' = IF force_refresh THEN "flow" ELSE "load"
    /\ UNCHANGED <<o_enabled, o_encrypt, o_key, o_file, o_now, o_state, o_managers,
                   o_tokens, o_flows, o_exchanges, o_saves, o_saved_by>>
    /\ UNCHANGED <<quietVars, notOAuth>>

\* token_info = self._load_token_info() and the expiry test
Auth_Load ==
    /\ o_pc = "load"
    /\ LET token_info == _load_token_info(o_enabled, o_key, o_file, o_now)
       IN /\ o_token_info' = token_info
          /\ IF token_info # NoTokenInfo
             THEN IF o_now < token_info.expires_at - RefreshThreshold
                  THEN /\ o_result' = [kind |-> "return", tokens |-> token_info.tokens,
                                       org_id |-> token_info.org_id]
                       /\ o_pc' = "done"
                  ELSE /\ o_pc' = "refresh"
                       /\ UNCHANGED o_result
             ELSE /\ o_pc' = "flow"
                  /\ UNCHANGED o_result
    /\ UNCHANGED <<o_enabled, o_encrypt, o_key, o_file, o_now, o_force, o_state, o_response,
                   o_managers, o_auth_calls, o_tokens, o_flows, o_exchanges, o_saves,
                   o_saved_by, o_saves0, o_exchanges0, o_flows0>>
    /\ UNCHANGED <<quietVars, notOAuth>>

\* self._refresh_token(...): the token endpoint answers ok or not
Auth_Refresh(ok, has_org) ==
    /\ o_pc = "refresh"
    /\ IF ok
       THEN LET tokens == [id |-> o_tokens + 1, has_org |-> has_org]
                new_token_info == [tokens |-> tokens, org_id |-> jwt_org_id(tokens),
                                   expires_at |-> o_now + ExpiresIn]
            IN /\ o_tokens' = o_tokens + 1
               /\ o_file' = _save_token_info(o_enabled, o_key, new_token_info, o_file)
               /\ o_saves' = IF o_enabled THEN o_saves + 1 ELSE o_saves
               /\ o_saved_by' = IF o_enabled THEN o_managers ELSE o_saved_by
               /\ o_result' = [kind |-> "return", tokens |-> new_token_info.tokens,
                               org_id |-> new_token_info.org_id]
               /\ o_pc' = "done"
       ELSE \* TokenRefreshError: proceed with new authentication
            /\ has_org = FALSE
            /\ o_pc' = "flow"
            /\ UNCHANGED <<o_tokens, o_file, o_saves, o_saved_by, o_result>>
    /\ UNCHANGED <<o_enabled, o_encrypt, o_key, o_now, o_force, o_token_info, o_state,
                   o_response, o_managers, o_auth_calls, o_flows, o_exchanges, o_saves0,
                   o_exchanges0, o_flows0>>
    /\ UNCHANGED <<quietVars, notOAuth>>

\* state = self._generate_state(); the browser is opened on the authorize URL
Auth_FlowStart ==
    /\ o_pc = "flow"
    /\ o_flows' = o_flows + 1
    /\ o_state' = o_flows + 1
    /\ o_response' = NoResponse
    /\ o_pc' = "wait"
    /\ UNCHANGED <<o_enabled, o_encrypt, o_key, o_file, o_now, o_force, o_token_info,
                   o_result, o_managers, o_auth_calls, o_tokens, o_exchanges, o_saves,
                   o_saved_by, o_saves0, o_exchanges0, o_flows0>>
    /\ UNCHANGED <<quietVars, notOAuth>>

\* server.handle_request(): a request reaches the callback URL
Auth_Callback(has_error, has_code, has_state) ==
    /\ o_pc = "wait"
    /\ \E st \in 0..o_flows : o_response' = do_GET(has_error, has_code, has_state, st)
    /\ o_pc' = "verify"
    /\ UNCHANGED <<o_enabled, o_encrypt, o_key, o_file, o_now, o_force, o_token_info, o_state,
                   o_result, o_managers, o_auth_calls, o_tokens, o_flows, o_exchanges,
                   o_saves, o_saved_by, o_saves0, o_exchanges0, o_flows0>>
    /\ UNCHANGED <<quietVars, notOAuth>>

\* The error test and the state test on the callback's response
Auth_Verify ==
    /\ o_pc = "verify"
    /\ IF o_response.kind = "error"
       THEN /\ o_result' = Raised("AuthenticationError")
            /\ o_pc' = "done"
       ELSE IF ~StateMatches(o_response.state, o_state)
       THEN /\ o_result' = Raised("AuthenticationError")
            /\ o_pc' = "done"
       ELSE /\ o_pc' = "exchange"
            /\ UNCHANGED o_result
    /\ UNCHANGED <<o_enabled, o_encrypt, o_key, o_file, o_now, o_force, o_token_info, o_state,
                   o_response, o_managers, o_auth_calls, o_tokens, o_flows, o_exchanges,
                   o_saves, o_saved_by, o_saves0, o_exchanges0, o_flows0>>
    /\ UNCHANGED <<quietVars, notOAuth>>

\* The code is exchanged for tokens, which are checked, saved and returned
Auth_Exchange(ok, has_org) ==
    /\ o_pc = "exchange"
    /\ o_exchanges' = o_exchanges + 1
    /\ o_pc' = "done"
    /\ IF ~ok
       THEN /\ has_org = FALSE
            /\ o_result' = Raised("AuthenticationError")
            /\ UNCHANGED <<o_tokens, o_file, o_saves, o_saved_by>>
       ELSE LET tokens == [id |-> o_tokens + 1, has_org |-> has_org]
                org_id == jwt_org_id(tokens)
                token_info == [tokens |-> tokens, org_id |-> org_id,
                               expires_at |-> o_now + ExpiresIn]
            IN /\ o_tokens' = o_tokens + 1
               /\ IF org_id = NoneVal
                  THEN /\ o_result' = Raised("AuthenticationError")
                       /\ UNCHANGED <<o_file, o_saves, o_saved_by>>
                  ELSE /\ o_file' = _save_token_info(o_enabled, o_key, token_info, o_file)
                       /\ o_saves' = IF o_enabled THEN o_saves + 1 ELSE o_saves
                       /\ o_saved_by' = IF o_enabled THEN o_managers ELSE o_saved_by
                       /\ o_result' = [kind |-> "return", tokens |-> tokens, org_id |-> org_id]
    /\ UNCHANGED <<o_enabled, o_encrypt, o_key, o_now, o_force, o_token_info, o_state,
                   o_response, o_managers, o_auth_calls, o_flows, o_saves0, o_exchanges0,
                   o_flows0>>
    /\ UNCHANGED <<quietVars, notOAuth>>

InitOAuth ==
    /\ InitQuiet
    /\ LimiterInit
    /\ RetryInit
    /\ CacheInit
    /\ OldInit
    /\ o_pc = "idle"
    /\ o_enabled \in BOOLEAN
    /\ o_encrypt \in BOOLEAN
    /\ o_key = IF o_encrypt THEN 1 ELSE 0
    /\ o_file \in {NoFile, LegacyFile}
    /\ o_now = 0
    /\ o_force = FALSE
    /\ o_token_info = NoTokenInfo
    /\ o_state = 0
    /\ o_response = NoResponse
    /\ o_result = NoAuthResult
    /\ o_managers = 1
    /\ o_auth_calls = 0
    /\ o_tokens = 0
    /\ o_flows = 0
    /\ o_exchanges = 0
    /\ o_saves = 0
    /\ o_saved_by = 0
    /\ o_saves0 = 0
    /\ o_exchanges0 = 0
    /\ o_flows0 = 0

NextOAuth ==
    \/ OM_New
    \/ Tick
    \/ \E force_refresh \in BOOLEAN : Auth_Call(force_refresh)
    \/ Auth_Load
    \/ \E ok \in BOOLEAN, has_org \in BOOLEAN : Auth_Refresh(ok, has_org)
    \/ Auth_FlowStart
    \/ \E has_error \in BOOLEAN, has_code \in BOOLEAN, has_state \in BOOLEAN :
          Auth_Callback(has_error, has_code, has_state)
    \/ Auth_Verify
    \/ \E ok \in BOOLEAN, has_org \in BOOLEAN : Auth_Exchange(ok, has_org)

SpecOAuth == InitOAuth /\ [][NextOAuth]_vars

\* ------------------------------------------------------------------------
\* repositories/custom_field_repository.py: the definitions cache

CacheTTL == 300               \* "Cache is valid for 5 minutes"
Infinity == 1000000000        \* float('inf'): above every age the clock can give
TickSteps == {1, 149, 150}    \* seconds the clock advances by in one step
DefinitionLists == {<<>>, <<"LinkedIn">>, <<"LinkedIn", "Notes">>}

\* core/utils.py get_cache_age
get_cache_age(timestamp, now) ==
    IF timestamp = NoStamp THEN Infinity ELSE now - timestamp

\* Variant: a cache exactly 300 seconds old is still served
_is_cache_valid_leq(cache, timestamp, now) ==
    IF cache.is_none THEN FALSE ELSE get_cache_age(timestamp, now) <= CacheTTL

\* CustomFieldRepository._is_cache_valid
_is_cache_valid(cache, timestamp, now) ==
    IF cache.is_none THEN FALSE ELSE get_cache_age(timestamp, now) < CacheTTL

\* The wall clock advances
Cache_Tick(d) ==
    /\ c_ticks < MaxTicks
    /\ c_ticks' = c_ticks + 1
    /\ c_now' = c_now + d
    /\ UNCHANGED <<c_pc, _definitions_cache, _cache_timestamp, c_calls, c_force, c_result,
                   c_requests, c_cache0, c_timestamp0, c_now0, c_requests0>>
    /\ UNCHANGED <<quietVars, notCache>>

\* get_definitions(force_refresh) up to the API request
GD_Call(force_refresh) ==
    /\ c_pc \in {"idle", "done"}
    /\ c_calls < MaxCacheCalls
    /\ c_calls' = c_calls + 1
    /\ c_force' = force_refresh
    /\ c_cache0' = _definitions_cache
    /\ c_timestamp0' = _cache_timestamp
    /\ c_now0' = c_now
    /\ c_requests0' = c_requests
    /\ IF ~force_refresh /\ _is_cache_valid(_definitions_cache, _cache_timestamp, c_now)
       THEN /\ c_result' = [kind |-> "return", defs |-> _definitions_cache.defs]
            /\ c_pc' = "done"
       ELSE /\ c_result' = NoDefinitions
            /\ c_pc' = "fetch"
    /\ UNCHANGED <<_definitions_cache, _cache_timestamp, c_now, c_ticks, c_requests>>
    /\ UNCHANGED <<quietVars, notCache>>

\* The API request and the parsing succeed: the cache is replaced
GD_FetchOk(definitions) ==
    /\ c_pc = "fetch"
    /\ c_requests' = c_requests + 1
    /\ _definitions_cache' = [is_none |-> FALSE, defs |-> definitions]
    /\ _cache_timestamp' = c_now
    /\ c_result' = [kind |-> "return", defs |-> definitions]
    /\ c_pc' = "done"
    /\ UNCHANGED <<c_now, c_ticks, c_calls, c_force, c_cache0, c_timestamp0, c_now0,
                   c_requests0>>
    /\ UNCHANGED <<quietVars, notCache>>

\* The API request or the parsing of the response raises: WorkflowMaxError
GD_FetchFails ==
    /\ c_pc = "fetch"
    /\ c_requests' = c_requests + 1
    /\ c_result' = [kind |-> "WorkflowMaxError", defs |-> <<>>]
    /\ c_pc' = "done"
    /\ UNCHANGED <<_definitions_cache, _cache_timestamp, c_now, c_ticks, c_calls, c_force,
                   c_cache0, c_timestamp0, c_now0, c_requests0>>
    /\ UNCHANGED <<quietVars, notCache>>

InitCache ==
    /\ InitQuiet
    /\ LimiterInit
    /\ RetryInit
    /\ OAuthInit
    /\ CacheInit
    /\ OldInit

NextCache ==
    \/ \E d \in TickSteps : Cache_Tick(d)
    \/ \E force_refresh \in BOOLEAN : GD_Call(force_refresh)
    \/ \E definitions \in DefinitionLists : GD_FetchOk(definitions)
    \/ GD_FetchFails

SpecCache == InitCache /\ [][NextCache]_vars

\* ------------------------------------------------------------------------
\* old_codebase/src/mtd_workflowmax/linkedin_matcher.py: LinkedInMatcher

OLD_THRESHOLD == 800    \* best_score >= 0.8, in thousandths
OldScanLimit == 5       \* search_results[:5]

\* A search result with the profile behind it: whether it has a urn_id, the
\* three SequenceMatcher ratios against the contact in percent, and whether
\* its contact info has a public_profile_url
OldCandidates ==
    [has_urn : BOOLEAN, name : {60, 100}, company : {0, 100}, position : {0, 100},
     has_url : BOOLEAN]

RECURSIVE SeqsUpTo(_, _)
SeqsUpTo(S, n) ==
    IF n = 0 THEN {<<>>}
    ELSE LET shorter == SeqsUpTo(S, n - 1)
         IN shorter \cup {Append(q, x) : q \in {r \in shorter : Len(r) = n - 1}, x \in S}

\* LinkedInMatcher.calculate_similarity: 50% name, 30% company, 20% position
old_calculate_similarity(c) == 5 * c.name + 3 * c.company + 2 * c.position

OldScanLen(results) == IF Len(results) < OldScanLimit THEN Len(results) ELSE OldScanLimit

\* contact.Name.split(maxsplit=1) and api.search_people
LM_Search ==
    /\ lm_pc = "start"
    /\ IF ~lm_two_parts \/ lm_search_results = <<>>
       THEN /\ lm_result' = NoUrl
            /\ lm_pc' = "done"
       ELSE /\ lm_pc' = "scan"
            /\ UNCHANGED lm_result
    /\ lm_i' = 1
    /\ lm_best_match' = NoUrl
    /\ lm_best_score' = 0
    /\ UNCHANGED <<lm_two_parts, lm_search_results>>
    /\ UNCHANGED <<quietVars, notOld>>

\* api.search_people raises: the except clause returns None
LM_SearchFails ==
    /\ lm_pc = "start"
    /\ lm_two_parts
    /\ lm_result' = NoUrl
    /\ lm_pc' = "done"
    /\ UNCHANGED <<lm_two_parts, lm_search_results, lm_i, lm_best_match, lm_best_score>>
    /\ UNCHANGED <<quietVars, notOld>>

\* One turn of the loop over search_results[:5]
LM_Scan ==
    /\ lm_pc = "scan"
    /\ IF lm_i > OldScanLen(lm_search_results)
       THEN /\ lm_pc' = "decide"
            /\ UNCHANGED <<lm_i, lm_best_match, lm_best_score>>
       ELSE LET hit == lm_search_results[lm_i]
                new_score == old_calculate_similarity(hit)
            IN /\ lm_i' = lm_i + 1
               /\ lm_pc' = "scan"
               /\ IF hit.has_urn /\ new_score > lm_best_score
                  THEN /\ lm_best_score' = new_score
                       /\ lm_best_match' = IF hit.has_url THEN lm_i ELSE lm_best_match
                  ELSE UNCHANGED <<lm_best_match, lm_best_score>>
    /\ UNCHANGED <<lm_two_parts, lm_search_results, lm_result>>
    /\ UNCHANGED <<quietVars, notOld>>

\* api.get_profile or api.get_profile_contact_info raises: None is returned
LM_FetchFails ==
    /\ lm_pc = "scan"
    /\ lm_i <= OldScanLen(lm_search_results)
    /\ lm_search_results[lm_i].has_urn
    /\ lm_result' = NoUrl
    /\ lm_pc' = "done"
    /\ UNCHANGED <<lm_two_parts, lm_search_results, lm_i, lm_best_match, lm_best_score>>
    /\ UNCHANGED <<quietVars, notOld>>

\* Only return match if similarity is high enough
LM_Decide ==
    /\ lm_pc = "decide"
    /\ lm_result' = IF lm_best_score >= OLD_THRESHOLD THEN lm_best_match ELSE NoUrl
    /\ lm_pc' = "done"
    /\ UNCHANGED <<lm_two_parts, lm_search_results, lm_i, lm_best_match, lm_best_score>>
    /\ UNCHANGED <<quietVars, notOld>>

InitOld ==
    /\ InitQuiet
    /\ LimiterInit
    /\ RetryInit
    /\ OAuthInit
    /\ CacheInit
    /\ lm_pc = "start"
    /\ lm_two_parts \in BOOLEAN
    /\ lm_search_results \in SeqsUpTo(OldCandidates, MaxOldHits)
    /\ lm_i = 1
    /\ lm_best_match = NoUrl
    /\ lm_best_score = 0
    /\ lm_result = NoUrl

NextOld == LM_Search \/ LM_SearchFails \/ LM_Scan \/ LM_FetchFails \/ LM_Decide

SpecOld == InitOld /\ [][NextOld]_vars

\* ------------------------------------------------------------------------
\* old_codebase/src/mtd_workflowmax/api_client.py: RateLimiter under the
\* profile fetcher's thread pool. RateLimiter holds no lock, so the workers'
\* reads and writes of active_calls interleave freely.

concurrent_limit == 1   \* rate_limit_config.concurrent_limit, below NumWorkers

\* APIClient.request enters "with self.rate_limiter.acquire()"
RL_Request(w) ==
    /\ rl_pc[w] = "idle"
    /\ rl_requests[w] < MaxRequests
    /\ rl_requests' = [rl_requests EXCEPT ![w] = @ + 1]
    /\ rl_result' = [rl_result EXCEPT ![w] = "pending"]
    /\ rl_pc' = [rl_pc EXCEPT ![w] = "wait"]
    /\ UNCHANGED <<active_calls, rl_loaded>>
    /\ UNCHANGED <<quietVars, notLimiter>>

\* One turn of _wait_for_capacity's loop; window_ok says whether the minute
\* and the daily counters are below their limits
RL_Check(w, window_ok) ==
    /\ rl_pc[w] = "wait"
    /\ IF active_calls < concurrent_limit /\ window_ok
       THEN rl_pc' = [rl_pc EXCEPT ![w] = "load_inc"]
       ELSE UNCHANGED rl_pc
    /\ UNCHANGED <<active_calls, rl_loaded, rl_requests, rl_result>>
    /\ UNCHANGED <<quietVars, notLimiter>>

\* _wait_for_capacity has waited more than max_wait: RateLimitError
RL_Timeout(w) ==
    /\ rl_pc[w] = "wait"
    /\ rl_result' = [rl_result EXCEPT ![w] = "RateLimitError"]
    /\ rl_pc' = [rl_pc EXCEPT ![w] = "idle"]
    /\ UNCHANGED <<active_calls, rl_loaded, rl_requests>>
    /\ UNCHANGED <<quietVars, notLimiter>>

\* self.active_calls += 1: the read
RL_LoadInc(w) ==
    /\ rl_pc[w] = "load_inc"
    /\ rl_loaded' = [rl_loaded EXCEPT ![w] = active_calls]
    /\ rl_pc' = [rl_pc EXCEPT ![w] = "store_inc"]
    /\ UNCHANGED <<active_calls, rl_requests, rl_result>>
    /\ UNCHANGED <<quietVars, notLimiter>>

\* self.active_calls += 1: the write; then the body of the with statement runs
RL_StoreInc(w) ==
    /\ rl_pc[w] = "store_inc"
    /\ active_calls' = rl_loaded[w] + 1
    /\ rl_pc' = [rl_pc EXCEPT ![w] = "in"]
    /\ UNCHANGED <<rl_loaded, rl_requests, rl_result>>
    /\ UNCHANGED <<quietVars, notLimiter>>

\* The HTTP request ends, by a response or by an exception: finally
RL_Finish(w, outcome) ==
    /\ rl_pc[w] = "in"
    /\ rl_result' = [rl_result EXCEPT ![w] = outcome]
    /\ rl_pc' = [rl_pc EXCEPT ![w] = "load_dec"]
    /\ UNCHANGED <<active_calls, rl_loaded, rl_requests>>
    /\ UNCHANGED <<quietVars, notLimiter>>

\* self.active_calls -= 1: the read
RL_LoadDec(w) ==
    /\ rl_pc[w] = "load_dec"
    /\ rl_loaded' = [rl_loaded EXCEPT ![w] = active_calls]
    /\ rl_pc' = [rl_pc EXCEPT ![w] = "store_dec"]
    /\ UNCHANGED <<active_calls, rl_requests, rl_result>>
    /\ UNCHANGED <<quietVars, notLimiter>>

\* self.active_calls -= 1: the write
RL_StoreDec(w) ==
    /\ rl_pc[w] = "store_dec"
    /\ active_calls' = rl_loaded[w] - 1
    /\ rl_pc' = [rl_pc EXCEPT ![w] = "idle"]
    /\ UNCHANGED <<rl_loaded, rl_requests, rl_result>>
    /\ UNCHANGED <<quietVars, notLimiter>>

InitLimiter ==
    /\ InitQuiet
    /\ RetryInit
    /\ OAuthInit
    /\ CacheInit
    /\ OldInit
    /\ LimiterInit

NextLimiter ==
    \E w \in Workers :
        \/ RL_Request(w)
        \/ \E window_ok \in BOOLEAN : RL_Check(w, window_ok)
        \/ RL_Timeout(w)
        \/ RL_LoadInc(w)
        \/ RL_StoreInc(w)
        \/ \E outcome \in {"response", "error"} : RL_Finish(w, outcome)
        \/ RL_LoadDec(w)
        \/ RL_StoreDec(w)

SpecLimiter == InitLimiter /\ [][NextLimiter]_vars

\* ------------------------------------------------------------------------
\* Properties
\* ------------------------------------------------------------------------
MatchEnded == op = "find" /\ m_pc = "done"
Returned(kind) == MatchEnded /\ m_result.kind = kind
Count(log, u) == Cardinality({k \in DOMAIN log : log[k] = u})

\* C1: find_linkedin_profile returns a match only if that match's weighted
\* score is at least SIMILARITY_THRESHOLD; in every other outcome that is not
\* an error it returns None, so a best candidate below the threshold is never
\* returned.
C1_ThresholdGate ==
    MatchEnded =>
        /\ m_result.kind \in {"match", "none", "error"}
        /\ m_result.kind = "match" =>
              m_result.match.found /\ m_result.match.score >= SIMILARITY_THRESHOLD
        /\ (m_result.kind # "error"
              /\ ~(best_match.found /\ best_match.score >= SIMILARITY_THRESHOLD))
              => m_result = Result("none", NoMatch)

\* A best candidate below the threshold existed and None was returned
C1_Witness ==
    /\ Returned("none")
    /\ best_match.found
    /\ best_match.score > 0
    /\ best_match.score < SIMILARITY_THRESHOLD

\* Maximum of the company and title similarities over all experience entries
ExperienceSimOf(p) ==
    LET vals == {0} \cup {p.experience[k].company : k \in DOMAIN p.experience}
                    \cup {p.experience[k].title : k \in DOMAIN p.experience}
    IN CHOOSE m \in vals : \A v \in vals : v <= m

GateFails(p) == p.nameSim < 80 \/ ExperienceSimOf(p) < 30

\* C2: a candidate whose name similarity is below 0.8 or whose experience
\* similarity (maximum of company and title similarity) is below 0.3 gets the
\* weighted score 0.0 and is never the candidate find_linkedin_profile
\* returns, whatever the other component is.
C2_GateForcesZero ==
    /\ []((m_pc = "contact_info" /\ GateFails(linkedin_profile)) => score = 0)
    /\ [][(m_pc = "contact_info" /\ GateFails(linkedin_profile))
            => (best_match' = best_match /\ best_idx' = best_idx)]_vars
    /\ [](m_result.kind = "match" => (m_result.match = best_match /\ best_idx > 0))

\* The only candidate has name similarity 0.79 and experience similarity 1.0,
\* both calls for it were made and None was returned
C2_Witness ==
    /\ Returned("none")
    /\ profile_log = <<1>>
    /\ contact_log = <<1>>
    /\ linkedin_profile.nameSim = 79
    /\ ExperienceSimOf(linkedin_profile) = 100
    /\ ~best_match.found

\* C3: when update_single_contact raises for one contact, the batch is not
\* aborted: every later contact of the page and of the following pages is
\* still processed and the run returns its counts.
C3_FailureIsolated ==
    (op = "batch" /\ b_pc = "done" /\ contact_errors > 0 /\ ~search_failed)
        => processed = NumContacts

\* C4: the returned match is the candidate with the highest weighted score
\* among all evaluated candidates, and among candidates sharing that score
\* the one that came first in search-result order.
C4_BestOfAll ==
    Returned("match") =>
        /\ m_result.match = best_match
        /\ m_result.match.score = top_score
        /\ best_idx = top_first

\* An earlier candidate reached the threshold and a later, higher one was
\* returned, with further candidates evaluated after it
C4_Witness ==
    /\ Returned("match")
    /\ first_pass > 0
    /\ first_pass < best_idx
    /\ best_idx < Len(contact_log)

\* C5 (as stated): get_profile_contact_info is called for a candidate only
\* when that candidate's weighted score is the best seen so far.
C5_ContactInfoOnlyForBest ==
    [][Len(contact_log') > Len(contact_log) => score > best_score]_vars

\* C5 (amended): get_profile_contact_info is called for every candidate that
\* was fetched and scored; for a candidate whose score is not higher than the
\* best seen so far the call is made all the same and best_match is left as
\* it was.
C5_ContactInfoForEveryCandidate ==
    /\ [](m_pc = "loop" => contact_log = profile_log)
    /\ [][(m_pc = "contact_info" /\ m_pc' = "loop")
            => /\ contact_log' = Append(contact_log, search_results[i].urn_id)
               /\ ~(score > best_score) => best_match' = best_match]_vars

\* The contact-info call was made for a candidate that scored above zero but
\* below the best seen so far
C5_Witness ==
    /\ m_pc = "loop"
    /\ i > 1
    /\ search_results[i - 1].urn_id # NoUrn
    /\ contact_log[Len(contact_log)] = search_results[i - 1].urn_id
    /\ score > 0
    /\ score < best_score
    /\ best_idx < i - 1

ConsideredHits ==
    {k \in 1..Len(search_results) : k <= 5 /\ search_results[k].urn_id # NoUrn}

\* C6: unless a call fails, every considered candidate (each of the first 5
\* hits that carries a urn) gets exactly one get_profile call and exactly one
\* get_profile_contact_info call with its urn, and no other hit gets any.
C6_OneCallEachPerCandidate ==
    (MatchEnded /\ m_result.kind # "error" /\ search_calls = 1) =>
        /\ \A k \in ConsideredHits :
              /\ Count(profile_log, search_results[k].urn_id) = 1
              /\ Count(contact_log, search_results[k].urn_id) = 1
        /\ Len(profile_log) = Cardinality(ConsideredHits)
        /\ Len(contact_log) = Cardinality(ConsideredHits)

\* Six hits were returned, one of the first five without urn: four candidates
\* were considered
C6_Witness ==
    /\ MatchEnded
    /\ m_result.kind # "error"
    /\ Len(search_results) = 6
    /\ Cardinality(ConsideredHits) = 4
    /\ Len(profile_log) = 4

\* C7: when search_people, get_profile or get_profile_contact_info raises,
\* find_linkedin_profile ends with a WorkflowMaxError (neither a match nor
\* None) and the call that failed was issued once only.
C7_ErrorsPropagate ==
    failed_call # "none" =>
        /\ m_pc = "done"
        /\ m_result = Result("error", NoMatch)
        /\ search_calls = 1
        /\ failed_call = "search_people" => (profile_log = <<>> /\ contact_log = <<>>)
        /\ failed_call = "get_profile" =>
              /\ profile_log[Len(profile_log)] = search_results[i].urn_id
              /\ Count(profile_log, search_results[i].urn_id) = 1
              /\ Count(contact_log, search_results[i].urn_id) = 0
        /\ failed_call = "get_profile_contact_info" =>
              /\ contact_log[Len(contact_log)] = search_results[i].urn_id
              /\ Count(contact_log, search_results[i].urn_id) = 1
              /\ Count(profile_log, search_results[i].urn_id) = 1

\* The contact-info call of a later candidate raised while a best match at
\* the threshold was already held
C7_Witness ==
    /\ MatchEnded
    /\ failed_call = "get_profile_contact_info"
    /\ m_result.kind = "error"
    /\ best_match.found
    /\ best_match.score >= SIMILARITY_THRESHOLD
    /\ i > best_idx

\* C8: update_custom_field is called only when dry_run is false and the
\* matcher returned a match with score >= 0.7; with dry_run true no update
\* call is made and the contact store stays as it was.
C8_UpdateOnlyWhenNotDryRun ==
    /\ [][update_calls' # update_calls
            => /\ ~dry_run
               /\ u_match.found
               /\ u_match.score >= SIMILARITY_THRESHOLD
               /\ Len(update_calls') = Len(update_calls) + 1
               /\ update_calls'[Len(update_calls')].uuid = u_uuid]_vars
    /\ [](dry_run => (update_calls = <<>> /\ store = store0))

\* A complete dry run of the batch in which a match at the threshold was
\* found for a contact
C8_Witness ==
    /\ op = "batch"
    /\ b_pc = "done"
    /\ dry_run
    /\ updated > 0
    /\ processed = NumContacts
    /\ store = store0
    /\ update_calls = <<>>

AlreadyHasValue(c) ==
    \E k \in DOMAIN c.custom_fields :
        /\ c.custom_fields[k].name = "LINKEDIN PROFILE"
        /\ c.custom_fields[k].value \notin {NoneVal, ""}

UpdatedUuids(calls) == {calls[k].uuid : k \in DOMAIN calls}

\* C9: a contact whose 'LINKEDIN PROFILE' field has a non-empty value is
\* never passed to find_linkedin_profile and never has the field written.
C9_SkipContactsWithProfile ==
    /\ [][\A u \in Uuids :
            AlreadyHasValue(store[u]) =>
                /\ u \in matched' => u \in matched
                /\ u \in UpdatedUuids(update_calls') => u \in UpdatedUuids(update_calls)
                /\ store'[u] = store[u]]_vars
    /\ [](\A u \in Uuids :
            AlreadyHasValue(store0[u]) =>
                /\ u \notin matched
                /\ u \notin UpdatedUuids(update_calls)
                /\ store[u] = store0[u])

\* A complete batch run over a store in which one contact had a profile and
\* another, without one, was passed to the matcher
C9_Witness ==
    /\ op = "batch"
    /\ b_pc = "done"
    /\ processed = NumContacts
    /\ \E u \in Uuids : AlreadyHasValue(store0[u])
    /\ matched # {}

\* C10: a name that does not split into two parts (a single token, an empty
\* or whitespace-only name) ends find_linkedin_profile with None and without
\* any search_people, get_profile or get_profile_contact_info call.
C10_NoSearchForSingleToken ==
    (op = "find" /\ Len(SplitWords(profile.name)) < 2) =>
        /\ m_pc \in {"begin", "done"}
        /\ m_pc = "done" => m_result = Result("none", NoMatch)
        /\ search_calls = 0
        /\ profile_log = <<>>
        /\ contact_log = <<>>

\* The single token "A-A" was given and None returned
C10_Witness ==
    /\ Returned("none")
    /\ profile.name = <<"A", "-", "A">>
    /\ search_calls = 0

IsPrefix(s, t) == Len(s) <= Len(t) /\ \A k \in 1..Len(s) : s[k] = t[k]
FirstFive(results) == SubSeq(results, 1, Min(Len(results), 5))
HasUrn(hit) == hit.urn_id # NoUrn
UrnsOf(hits) == [k \in 1..Len(hits) |-> hits[k].urn_id]

\* C11: find_linkedin_profile evaluates at most the first 5 search hits, in
\* the order the search returned them: at every moment the get_profile calls
\* made so far are, in call order, a prefix of the urns of the first five
\* hits in result order, the get_profile_contact_info calls are a prefix of
\* the get_profile calls, and no call is made for a hit at position 6 or
\* later (hit k carries urn k).
C11_FirstFiveInOrder ==
    op = "find" =>
        /\ IsPrefix(profile_log, UrnsOf(SelectSeq(FirstFive(search_results), HasUrn)))
        /\ IsPrefix(contact_log, profile_log)
        /\ \A k \in 1..Len(profile_log) : profile_log[k] <= 5
        /\ \A k \in 1..Len(contact_log) : contact_log[k] <= 5

\* Six hits, all with a urn, were returned and the loop ran to its end: the
\* first five were evaluated in order, the sixth was not
C11_Witness ==
    /\ MatchEnded
    /\ m_result.kind # "error"
    /\ Len(search_results) = 6
    /\ \A k \in 1..6 : search_results[k].urn_id = k
    /\ profile_log = <<1, 2, 3, 4, 5>>
    /\ contact_log = <<1, 2, 3, 4, 5>>

\* C12: when search_people returns zero hits, find_linkedin_profile ends at
\* once with no match (not an error) and has made no get_profile call and no
\* get_profile_contact_info call.
C12_ZeroHitsNoMatch ==
    (op = "find" /\ search_calls = 1 /\ failed_call # "search_people"
       /\ search_results = <<>>) =>
        /\ m_pc = "done"
        /\ m_result.kind = "none"
        /\ ~m_result.match.found
        /\ profile_log = <<>>
        /\ contact_log = <<>>

\* A two-part name was searched and the search returned an empty list
C12_Witness ==
    /\ Returned("none")
    /\ Len(SplitMax1(profile.name)) = 2
    /\ search_calls = 1
    /\ failed_call = "none"
    /\ search_results = <<>>

WeightedScoreOf(p) == 6 * p.nameSim + 4 * ExperienceSimOf(p)

\* C16: when both gates pass (name similarity >= 0.8, experience similarity
\* >= 0.3) the score of a candidate is 0.6 * name similarity + 0.4 *
\* max(company similarity, title similarity) (in thousandths: 6 * name + 4 *
\* experience), and that score is what is kept as the best score and compared
\* with the 0.7 threshold: a match is returned exactly when the best weighted
\* score reached 700.
C16_WeightedScore ==
    /\ []((m_pc = "contact_info" /\ ~GateFails(linkedin_profile))
            => score = WeightedScoreOf(linkedin_profile))
    /\ [][(m_pc = "contact_info" /\ best_match' # best_match)
            => (best_score' = score /\ best_match'.score = score)]_vars
    /\ []((MatchEnded /\ m_result.kind # "error" /\ search_results # <<>>)
            => (m_result.kind = "match" <=> (best_match.found /\ best_score >= 700)))
    /\ [](m_result.kind = "match" => m_result.match.score = best_score)

\* A candidate with name similarity 1.0 and experience similarity 0.3 passed
\* both gates, scored 0.72 and was returned
C16_Witness ==
    /\ Returned("match")
    /\ linkedin_profile.nameSim = 100
    /\ ExperienceSimOf(linkedin_profile) = 30
    /\ score = 720
    /\ m_result.match.score = 720

\* C13: update_missing_linkedin_profiles only acts on contacts still missing
\* the field: in a second run on the store a first, non-dry run left behind,
\* no contact whose LinkedIn field the first run wrote is handed to the
\* matcher or gets an update call.
C13_SecondRunSkipsWritten ==
    run = 2 =>
        /\ UpdatedUuids(update_calls) \cap written1 = {}
        /\ matched \cap written1 = {}
        /\ \A u \in written1 : store[u] = store0[u]

\* The first run wrote the field of contact 1 only; the second, non-dry run
\* went through all contacts, skipped contact 1 and handed contact 2 to the
\* matcher
C13_Witness ==
    /\ run = 2
    /\ b_pc = "done"
    /\ ~dry_run
    /\ written1 = {1}
    /\ HasLinkedIn(store[1])
    /\ processed = NumContacts
    /\ 1 \notin matched
    /\ 2 \in matched

PagesInOrder ==
    \A k \in 1..Len(page_log) : page_log[k] = [page |-> k, page_size |-> batch_size]

\* C14: a run of update_missing_linkedin_profiles requests pages 1, 2, 3, ...
\* each once, in increasing order, with the given batch_size, and when the
\* contact source answers every request it ends after the first empty page:
\* the last page requested is empty, every page before it was not, and
\* every contact of the source was counted.
C14_PagesUntilFirstEmpty ==
    op = "batch" =>
        /\ PagesInOrder
        /\ (b_pc = "done" /\ ~search_failed) =>
              /\ page_log # <<>>
              /\ search_page(store, Len(page_log), batch_size) = <<>>
              /\ \A k \in 1..(Len(page_log) - 1) :
                    search_page(store, k, batch_size) # <<>>
              /\ processed = NumContacts

\* C18: _clean_text is idempotent: cleaning an already cleaned string gives
\* the same string, for every raw string including the empty one.
C18_CleanTextIdempotent ==
    t_pc \in {"recleaned", "compared"} => clean2_a = clean_a

\* "A-b" was cleaned to "a b" (lower case, special character replaced) and
\* cleaned again
C18_Witness ==
    /\ t_pc = "recleaned"
    /\ text_a = <<"A", "-", "b">>
    /\ clean_a = <<"a", " ", "b">>
    /\ clean2_a = <<"a", " ", "b">>

Chars(s) == {s[k] : k \in DOMAIN s}

\* C17: the similarity is symmetric: comparing two cleaned strings gives the
\* same score in either argument order.
C17_Symmetric ==
    t_pc = "compared" => sim_ab = sim_ba

\* C17 as amended: the two argument orders agree at the ends of the scale.
\* Equal strings score 1.0 in both orders, strings without a common
\* character score 0.0 in both orders, and no other pair scores 1.0 or 0.0
\* in either order; in between the two orders may differ.
C17_SymmetricAtExtremes ==
    t_pc = "compared" =>
        /\ clean_a = clean_b => (sim_ab = 100 /\ sim_ba = 100)
        /\ (Chars(clean_a) \cap Chars(clean_b) = {} /\ clean_a # clean_b)
              => (sim_ab = 0 /\ sim_ba = 0)
        /\ sim_ab = 100 => clean_a = clean_b
        /\ sim_ba = 100 => clean_a = clean_b
        /\ (sim_ab = 0 \/ sim_ba = 0) => Chars(clean_a) \cap Chars(clean_b) = {}
        /\ sim_ab \in 0..100
        /\ sim_ba \in 0..100

\* "Ab" and "-Ab " clean to the same string and score 1.0 in both orders
C17_Witness ==
    /\ t_pc = "compared"
    /\ text_a = <<"A", "b">>
    /\ text_b = <<"-", "A", "b">>
    /\ clean_a = <<"a", "b">>
    /\ clean_b = clean_a
    /\ sim_ab = 100
    /\ sim_ba = 100

AnalysisEnded == a_pc = "done"
CompanySim(role) ==
    ratio(_clean_text(a_target_company), _clean_text(role.companyName))
TitleSim(role) ==
    ratio(_clean_text(a_target_title), _clean_text(role.title))
WithCompany(experience) == {k \in DOMAIN experience : experience[k].companyName # <<>>}
WithTitle(experience) == {k \in DOMAIN experience : experience[k].title # <<>>}
MaxOf(S) == CHOOSE m \in S : \A v \in S : v <= m
MinOf(S) == CHOOSE m \in S : \A v \in S : m <= v
Reorderings(experience) ==
    {[k \in DOMAIN experience |-> experience[f[k]]] :
        f \in {g \in [DOMAIN experience -> DOMAIN experience] :
                  \A x, y \in DOMAIN experience : g[x] = g[y] => x = y}}
SameSimilaritiesInAnyOrder ==
    \A e \in Reorderings(a_experience) :
        LET other == _analyze_experience(
                         ScoredProfile(e, a_target_company, a_target_title))
        IN /\ other.company_similarity = a_result.company_similarity
           /\ other.title_similarity = a_result.title_similarity

\* C15: _analyze_experience scans every entry: the returned company (title)
\* similarity is the maximum similarity to the target over the entries with a
\* non-empty company (title), whatever the order of the entries, and
\* best_company (best_title) is the original string of an entry that attains
\* that maximum.
C15_BestAttainsMaximum ==
    AnalysisEnded =>
        /\ SameSimilaritiesInAnyOrder
        /\ WithCompany(a_experience) # {} =>
              /\ a_result.company_similarity =
                    MaxOf({CompanySim(a_experience[k]) : k \in WithCompany(a_experience)})
              /\ a_result.best_company \in WithCompany(a_experience)
              /\ CompanySim(a_experience[a_result.best_company])
                    = a_result.company_similarity
        /\ WithTitle(a_experience) # {} =>
              /\ a_result.title_similarity =
                    MaxOf({TitleSim(a_experience[k]) : k \in WithTitle(a_experience)})
              /\ a_result.best_title \in WithTitle(a_experience)
              /\ TitleSim(a_experience[a_result.best_title]) = a_result.title_similarity

\* C15 as amended: the similarities are the maxima over all entries in any
\* order (0.0 when no entry has the value); best_company (best_title) is the
\* original string of the first entry attaining the maximum when that
\* maximum is above 0.0, and None when it is 0.0.
C15_BestAttainsPositiveMaximum ==
    AnalysisEnded =>
        LET cs == {CompanySim(a_experience[k]) : k \in WithCompany(a_experience)}
            ts == {TitleSim(a_experience[k]) : k \in WithTitle(a_experience)}
            cmax == MaxOf(cs \cup {0})
            tmax == MaxOf(ts \cup {0})
        IN /\ SameSimilaritiesInAnyOrder
           /\ a_result.company_similarity = cmax
           /\ a_result.title_similarity = tmax
           /\ a_result.best_company =
                 IF cmax > 0
                 THEN MinOf({k \in WithCompany(a_experience) :
                               CompanySim(a_experience[k]) = cmax})
                 ELSE 0
           /\ a_result.best_title =
                 IF tmax > 0
                 THEN MinOf({k \in WithTitle(a_experience) :
                               TitleSim(a_experience[k]) = tmax})
                 ELSE 0

\* Target company "Ab", title "A": the second entry holds the best company
\* (1.0 after 0.67 for the first), no title has a character in common with
\* the target, so best_title is None
C15_Witness ==
    /\ AnalysisEnded
    /\ a_target_company = <<"A", "b">>
    /\ a_target_title = <<"A">>
    /\ a_experience = <<[companyName |-> <<"A">>, title |-> <<"b">>],
                        [companyName |-> <<"A", "b">>, title |-> <<"b">>]>>
    /\ a_result.company_similarity = 100
    /\ a_result.best_company = 2
    /\ a_result.title_similarity = 0
    /\ a_result.best_title = 0

\* C19: for an empty or missing experience sequence _analyze_experience
\* returns (it does not raise) has_company_match = false, has_title_match =
\* false, best_company = None, best_title = None, company_similarity = 0.0
\* and title_similarity = 0.0, whatever the targets are, missing ones
\* included.
C19_EmptyExperience ==
    /\ [][(a_pc = "ready" /\ a_experience = <<>>) => a_pc' = "done"]_vars
    /\ []((AnalysisEnded /\ a_experience = <<>>) =>
            /\ a_result.has_company_match = FALSE
            /\ a_result.has_title_match = FALSE
            /\ a_result.best_company = 0
            /\ a_result.best_title = 0
            /\ a_result.company_similarity = 0
            /\ a_result.title_similarity = 0)

\* The experience is empty, the target company is "Ab" and the target title
\* is missing
C19_Witness ==
    /\ AnalysisEnded
    /\ a_experience = <<>>
    /\ a_target_company = <<"A", "b">>
    /\ a_target_title = <<>>
    /\ a_result.company_similarity = 0
    /\ a_result.best_company = 0

RefreshFailed(t) == cm_pc[t] = "cc_lock" /\ cm_nested[t]

\* C20: when authentication fails inside refresh_auth, the call clears the
\* cached client and ends by raising AuthenticationError, and the lock is
\* free afterwards: every failed refresh leads to the call having ended with
\* AuthenticationError, and a thread whose call has ended holds no lock.
C20_RefreshFailureRaises ==
    /\ \A t \in Threads :
          RefreshFailed(t) ~> (cm_pc[t] = "idle" /\ cm_result[t] = "AuthenticationError")
    /\ [](\A t \in Threads : cm_pc[t] = "idle" => cm_lock # t)

OkCalls(calls) == Cardinality({k \in DOMAIN calls : calls[k].ok})
BatchEnded == op = "batch" /\ b_pc = "done"

\* C25: in every run of update_missing_linkedin_profiles, dry or not, the
\* returned updated count equals the number of update calls that were made
\* and reported success in the run, and is never greater than processed.
C25_UpdatedCountsSuccessfulCalls ==
    BatchEnded => (updated = OkCalls(update_calls) /\ updated <= processed)

\* C25 as amended: updated grows by one exactly when update_single_contact
\* returned a match at the threshold; in a run that is not dry each such
\* return follows a successful update call, so the returned count is the
\* number of successful update calls; in a dry run no update call is made and
\* the count is the number of contacts that would have been updated; it is
\* never greater than processed.
C25_UpdatedCountsReturnedMatches ==
    /\ [][(op = "batch" /\ b_pc = "call" /\ u_pc = "done" /\ b_pc' # "call") =>
            updated' = IF u_result = "match" /\ u_match.score >= 700
                       THEN updated + 1 ELSE updated]_vars
    /\ [][(op = "batch" /\ ~(b_pc = "call" /\ u_pc = "done") /\ b_pc # "idle")
            => updated' = updated]_vars
    /\ [](op = "batch" => updated <= processed)
    /\ []((op = "batch" /\ ~dry_run /\ b_pc \in {"loop", "fetch", "done"})
            => updated = OkCalls(update_calls))
    /\ []((op = "batch" /\ dry_run) => update_calls = <<>>)

\* A dry run over both contacts ended: one contact would have been updated,
\* no update call was made
C25_Witness ==
    /\ BatchEnded
    /\ dry_run
    /\ processed = NumContacts
    /\ updated = 1
    /\ update_calls = <<>>

\* C26: every update call of update_single_contact carries a non-empty
\* profile URL; when the match has neither a contact-info URL nor a
\* public_id, no update call is made and the call returns None.
C26_UpdateCarriesUrl ==
    /\ [](\A k \in DOMAIN update_calls : Truthy(update_calls[k].url))
    /\ [][(u_pc = "match" /\ m_pc = "done" /\ m_result.kind = "match"
             /\ ~Truthy(m_result.match.url) /\ ~Truthy(m_result.match.public_id))
            => (u_pc' = "done" /\ u_result' = "none" /\ update_calls' = update_calls)]_vars
    /\ [](u_pc = "update" => Truthy(u_url))

\* A match at the threshold came back with an empty contact-info URL and no
\* public_id; the call ended with None and no update call
C26_Witness ==
    /\ op = "single"
    /\ ~dry_run
    /\ u_pc = "done"
    /\ u_result = "none"
    /\ u_match.found
    /\ u_match.score >= 700
    /\ u_match.url = ""
    /\ u_match.public_id = NoneVal
    /\ update_calls = <<>>

OneInstance == cm_instances <= 1
AuthOnlyWithoutClient == ~cm_auth_cached
SameClientForAll ==
    \A t, u \in Threads : (cm_got[t] # 0 /\ cm_got[u] # 0) => cm_got[t] = cm_got[u]
ConstructionSucceeds == \A t \in Threads : cm_result[t] # "AttributeError"

RetryCalls == Len(r_outcomes)
C22_RetryAtMostN ==
    max_attempts >= 1 /\ r_pc # "ready" =>
        /\ RetryCalls <= max_attempts
        /\ \A k \in 1..(RetryCalls - 1) : r_outcomes[k] = "raise_E"
        /\ r_pc = "try" => Len(r_sleeps) = RetryCalls
        /\ r_pc = "sleep" => Len(r_sleeps) = RetryCalls - 1 /\ RetryCalls < max_attempts
        /\ r_pc = "done" =>
              /\ RetryCalls >= 1
              /\ Len(r_sleeps) = RetryCalls - 1
              /\ r_result.call = RetryCalls
              /\ r_outcomes[RetryCalls] = "return" => r_result.kind = "return"
              /\ r_outcomes[RetryCalls] = "raise_other" =>
                    r_result.kind = "raise" /\ r_result.exc = [in_E |-> FALSE, call |-> RetryCalls]
              /\ r_outcomes[RetryCalls] = "raise_E" =>
                    /\ RetryCalls = max_attempts
                    /\ r_result.kind = "raise"
                    /\ r_result.exc = [in_E |-> TRUE, call |-> max_attempts]

\* Every attempt of three failed inside E: the third exception is raised after
\* two sleeps
C22_Witness ==
    /\ r_pc = "done"
    /\ max_attempts = 3
    /\ r_outcomes = <<"raise_E", "raise_E", "raise_E">>
    /\ Len(r_sleeps) = 2
    /\ r_result.kind = "raise"


\* C23: in authenticate, if the state received on the callback differs from
\* the state generated for this flow, the call raises AuthenticationError, no
\* token-exchange request is sent and no token information is saved.
StateMismatch == o_response.kind = "code" /\ o_response.state # o_state
C23_StateMismatchRejected ==
    StateMismatch =>
        /\ o_pc \in {"verify", "done"}
        /\ o_exchanges = o_exchanges0
        /\ o_saves = o_saves0
        /\ o_pc = "done" => o_result.kind = "AuthenticationError"

\* A callback carried a code with another state and the call has ended
C23_Witness ==
    /\ StateMismatch
    /\ o_pc = "done"
    /\ o_result.kind = "AuthenticationError"
    /\ o_flows > o_flows0

\* C28: authenticate never returns a missing (None) organization id: on every
\* successful return, through stored tokens, token refresh or the full
\* authorization-code flow, the second element of the result is an
\* organization id extracted from the access token.
C28_OrgIdNeverNone ==
    o_pc = "done" /\ o_result.kind = "return" =>
        /\ o_result.org_id # NoneVal
        /\ o_result.org_id = jwt_org_id(o_result.tokens)

\* C29: with token storage and encryption both enabled, token information
\* saved by one OAuthManager is loaded back unchanged by an OAuthManager
\* created later, so authenticate reuses the stored unexpired tokens instead
\* of starting a new browser authorization flow.
LoadedFromEarlierManager ==
    /\ o_enabled /\ o_encrypt /\ ~o_force
    /\ o_pc \in {"refresh", "flow", "done"}
    /\ o_saves = o_saves0 /\ o_flows = o_flows0
    /\ o_saved_by # 0 /\ o_saved_by < o_managers
C29_StoredTokensReused ==
    LoadedFromEarlierManager =>
        /\ o_token_info = o_file.data
        /\ o_now < o_file.data.expires_at - RefreshThreshold =>
              /\ o_pc = "done"
              /\ o_result.kind = "return"
              /\ o_result.tokens = o_file.data.tokens

\* C24: get_definitions with force_refresh false returns the cached
\* definitions without an API request whenever the last successful fetch was
\* less than 300 seconds ago; it issues an API request when the cache is
\* empty, is 300 or more seconds old, or force_refresh is true; and a failed
\* fetch leaves the cached list and its timestamp unchanged.
FreshAtCall == ~c_cache0.is_none /\ c_now0 - c_timestamp0 < 300
C24_CacheTTL ==
    c_pc \in {"fetch", "done"} =>
        /\ ~c_force /\ FreshAtCall =>
              /\ c_pc = "done"
              /\ c_result = [kind |-> "return", defs |-> c_cache0.defs]
              /\ c_requests = c_requests0
              /\ _definitions_cache = c_cache0 /\ _cache_timestamp = c_timestamp0
        /\ c_force \/ ~FreshAtCall =>
              \/ c_pc = "fetch" /\ c_requests = c_requests0
              \/ c_pc = "done" /\ c_requests = c_requests0 + 1
        /\ c_pc = "done" /\ c_result.kind = "WorkflowMaxError" =>
              _definitions_cache = c_cache0 /\ _cache_timestamp = c_timestamp0

\* A cache exactly 300 seconds old was refetched, and the fetch failed
C24_Witness ==
    /\ c_pc = "done"
    /\ ~c_force
    /\ ~c_cache0.is_none
    /\ c_now0 - c_timestamp0 = 300
    /\ c_requests = c_requests0 + 1
    /\ c_result.kind = "WorkflowMaxError"
    /\ _definitions_cache = c_cache0

\* C27: in the earlier LinkedInMatcher.find_linkedin_profile, whenever a URL
\* is returned it is the public profile URL of the candidate that achieved the
\* best score (the score that met the 0.8 threshold), never the URL of a
\* lower-scoring candidate seen earlier in the scan.
OldScanned == {k \in 1..OldScanLen(lm_search_results) : lm_search_results[k].has_urn}
OldBest ==
    {k \in OldScanned :
        \A j \in OldScanned : old_calculate_similarity(lm_search_results[j])
                                  <= old_calculate_similarity(lm_search_results[k])}
C27_OldUrlOfBestCandidate ==
    lm_pc = "done" /\ lm_result # NoUrl =>
        /\ lm_result \in OldBest
        /\ lm_search_results[lm_result].has_url
        /\ old_calculate_similarity(lm_search_results[lm_result]) >= OLD_THRESHOLD

\* C30: when several threads issue requests through one APIClient,
\* RateLimiter never admits more than concurrent_limit calls at the same time:
\* 0 <= active_calls <= concurrent_limit holds in every reachable state under
\* any interleaving of acquire entries and exits.
Admitted == {w \in Workers : rl_pc[w] = "in"}
C30_ConcurrencyBounded ==
    /\ 0 <= active_calls
    /\ active_calls <= concurrent_limit
    /\ Cardinality(Admitted) <= concurrent_limit

====
